---- MODULE Spec2Model ----
(***************************************************************************)
(* State-machine model of the ecasound engine core:                        *)
(*   - ECA_CHAINSETUP (libecasound/eca-chainsetup.cpp): object lists,      *)
(*     buffering-mode selection, enable()/disable() lifecycle;             *)
(*   - AUDIO_IO_PROXY_SERVER (libecasound/audioio-proxy-server.cpp): the   *)
(*     worker loop over the per-client rings.                              *)
(* The chainsetup is one record `cs`; every method is an operator from a   *)
(* chainsetup record to the record after the call, so that a method that   *)
(* calls other methods is the composition of their operators.              *)
(***************************************************************************)
EXTENDS Integers, Sequences, FiniteSets, TLC

VARIABLES
  cs,    \* the ECA_CHAINSETUP object
  last,  \* the chainsetup call just made and what it threw
  ps,    \* the AUDIO_IO_PROXY_SERVER object: flags, clients and rings
  io,    \* the proxy worker thread: its position in io_thread(), and the
         \* clients it has served in the pass it is making
  eng    \* the control/engine thread: its position in a proxy-server call,
         \* and the record of what was asked of the server (started,
         \* stopped) and of the buffers put into and taken out of every ring

csvars == <<cs, last>>
psvars == <<ps, io, eng>>
vars == <<cs, last, ps, io, eng>>

(***************************************************************************)
(* Generic helpers                                                         *)
(***************************************************************************)
Idx(s) == 1..Len(s)

SetAt(s, n, v) == [s EXCEPT ![n] = v]

CountIf(s, P(_)) == Cardinality({n \in Idx(s) : P(s[n])})

(***************************************************************************)
(* Buffering modes and parameter tuples                                    *)
(***************************************************************************)
cs_bmode_none == "none"
cs_bmode_auto == "auto"
cs_bmode_nonrt == "nonrt"
cs_bmode_rt == "rt"
cs_bmode_rtlowlatency == "rtlowlatency"

Buffering_mode_t ==
  {cs_bmode_none, cs_bmode_auto, cs_bmode_nonrt, cs_bmode_rt, cs_bmode_rtlowlatency}

\* "1024,true,50,true,100000,true"
default_bmode_nonrt_const ==
  [buffersize |-> 1024, raised_priority |-> TRUE, sched_priority |-> 50,
   double_buffering |-> TRUE, double_buffer_size |-> 100000, max_buffers |-> TRUE]

\* "1024,true,50,true,100000,true"
default_bmode_rt_const ==
  [buffersize |-> 1024, raised_priority |-> TRUE, sched_priority |-> 50,
   double_buffering |-> TRUE, double_buffer_size |-> 100000, max_buffers |-> TRUE]

\* "256,true,50,true,100000,false"
default_bmode_rtlowlatency_const ==
  [buffersize |-> 256, raised_priority |-> TRUE, sched_priority |-> 50,
   double_buffering |-> TRUE, double_buffer_size |-> 100000, max_buffers |-> FALSE]

\* "s16_le,2,44100,i": the sample rate of the default audio format
default_audio_format_rate == 44100

\* AUDIO_IO_PROXY_SERVER::buffercount_default, buffersize_default
buffercount_default == 32
buffersize_default == 1024

BufparamFields ==
  {"buffersize", "raised_priority", "sched_priority",
   "double_buffering", "double_buffer_size", "max_buffers"}

\* bmode_override_rep after construction: no field is set
NoOverride == [f \in BufparamFields |-> [set |-> FALSE, val |-> 0]]

(***************************************************************************)
(* Audio objects.  A direct object is a record; `kind` is its dynamic      *)
(* type: "rt" (AUDIO_IO_DEVICE), "loop" (LOOP_DEVICE), "file" (any other   *)
(* object), "null" (NULLFILE).  `native` is the sample rate the object     *)
(* takes from its medium when it is opened (0: it keeps the rate it was    *)
(* given).  A front entry (inputs[n], outputs[n]) is either the direct     *)
(* object at `child` itself (wrap = FALSE) or an AUDIO_IO_BUFFERED_PROXY   *)
(* whose child_repp is the direct object at `child`.                       *)
(***************************************************************************)
NewObject(t, bsize) ==
  [label |-> t.label, kind |-> t.kind, native |-> t.native,
   srate |-> default_audio_format_rate, open |-> FALSE,
   buffersize |-> bsize, max_buffers |-> TRUE, ignore_xruns |-> TRUE]

\* new NULLFILE("null")
NULLFILE ==
  [label |-> "null", kind |-> "null", native |-> 0,
   srate |-> default_audio_format_rate, open |-> FALSE,
   buffersize |-> 0, max_buffers |-> TRUE, ignore_xruns |-> TRUE]

IsDevice(o) == o.kind = "rt"
IsLoop(o) == o.kind = "loop"

\* The loop devices, by label.  A loop device is one object however many
\* slots of `inputs` and `outputs` hold it; loop_map holds the labels of the
\* loop devices the chainsetup owns, and loop_deletes counts, for each, the
\* `delete` expressions applied to it: through an input or output slot
\* (list) and through loop_map (map).
LoopLabels == {"l"}
NoLoopDeletes == [l \in LoopLabels |-> [list |-> 0, map |-> 0]]
delete_object(s, o) ==
  IF IsLoop(o)
  THEN [s EXCEPT !.loop_deletes[o.label].list = @ + 1]
  ELSE s

\* CHAIN(): no input, no output (-1), no operators, no selected target,
\* no controllers
NewChain(name) ==
  [name |-> name, input |-> -1, output |-> -1, cops |-> 0,
   selected_target |-> 0, gcontrollers |-> 0]

(***************************************************************************)
(* Effective buffering parameters: the user's override shadows the value   *)
(* of the active mode, field by field.                                     *)
(***************************************************************************)
buffersize(s) ==
  IF s.bmode_override_rep["buffersize"].set
  THEN s.bmode_override_rep["buffersize"].val
  ELSE s.bmode_active_rep.buffersize

raised_priority(s) ==
  IF s.bmode_override_rep["raised_priority"].set
  THEN s.bmode_override_rep["raised_priority"].val
  ELSE s.bmode_active_rep.raised_priority

get_sched_priority(s) ==
  IF s.bmode_override_rep["sched_priority"].set
  THEN s.bmode_override_rep["sched_priority"].val
  ELSE s.bmode_active_rep.sched_priority

double_buffering(s) ==
  IF s.bmode_override_rep["double_buffering"].set
  THEN s.bmode_override_rep["double_buffering"].val
  ELSE s.bmode_active_rep.double_buffering

double_buffer_size(s) ==
  IF s.bmode_override_rep["double_buffer_size"].set
  THEN s.bmode_override_rep["double_buffer_size"].val
  ELSE s.bmode_active_rep.double_buffer_size

max_buffers(s) ==
  IF s.bmode_override_rep["max_buffers"].set
  THEN s.bmode_override_rep["max_buffers"].val
  ELSE s.bmode_active_rep.max_buffers

\* the override setters
set_buffersize(s, value) ==
  [s EXCEPT !.bmode_override_rep["buffersize"] = [set |-> TRUE, val |-> value]]

toggle_raised_priority(s, value) ==
  [s EXCEPT !.bmode_override_rep["raised_priority"] = [set |-> TRUE, val |-> value]]

set_sched_priority(s, value) ==
  [s EXCEPT !.bmode_override_rep["sched_priority"] = [set |-> TRUE, val |-> value]]

toggle_double_buffering(s, value) ==
  [s EXCEPT !.bmode_override_rep["double_buffering"] = [set |-> TRUE, val |-> value]]

set_double_buffer_size(s, v) ==
  [s EXCEPT !.bmode_override_rep["double_buffer_size"] = [set |-> TRUE, val |-> v]]

\* a toggle_max_buffers() that writes the double-buffering override
toggle_max_buffers_other_field(s, v) ==
  [s EXCEPT !.bmode_override_rep["double_buffering"] = [set |-> TRUE, val |-> v]]

toggle_max_buffers(s, v) ==
  [s EXCEPT !.bmode_override_rep["max_buffers"] = [set |-> TRUE, val |-> v]]

\* the user's multitrack override: the flag is set and multitrack_mode_rep
\* holds the user's value
set_multitrack_mode_override(s, value) ==
  [s EXCEPT !.multitrack_mode_override_rep = TRUE, !.multitrack_mode_rep = value]

set_buffering_mode(s, value) ==
  IF value = cs_bmode_none
  THEN [s EXCEPT !.buffering_mode_rep = cs_bmode_auto]
  ELSE [s EXCEPT !.buffering_mode_rep = value]

(***************************************************************************)
(* Topology counts                                                         *)
(***************************************************************************)
number_of_realtime_inputs(s) == CountIf(s.inputs_direct_rep, IsDevice)

number_of_realtime_outputs(s) == CountIf(s.outputs_direct_rep, IsDevice)

number_of_non_realtime_inputs(s) == Len(s.inputs) - number_of_realtime_inputs(s)

number_of_non_realtime_outputs(s) == Len(s.outputs) - number_of_realtime_outputs(s)

RECURSIVE SumCops(_, _)
SumCops(chains, n) ==
  IF n > Len(chains) THEN 0 ELSE chains[n].cops + SumCops(chains, n + 1)

number_of_chain_operators(s) == SumCops(s.chains, 1)

has_realtime_objects(s) ==
  number_of_realtime_inputs(s) > 0 \/ number_of_realtime_outputs(s) > 0

has_nonrealtime_objects(s) ==
  Len(s.inputs_direct_rep) + Len(s.outputs_direct_rep) >
    number_of_realtime_inputs(s) + number_of_realtime_outputs(s)

(***************************************************************************)
(* select_active_buffering_mode()                                          *)
(***************************************************************************)
\* a selection in which the override can only turn multitrack mode on
select_multitrack_mode_or(s) ==
  IF (s.multitrack_mode_override_rep = TRUE /\ s.multitrack_mode_rep = TRUE) \/
     (number_of_realtime_inputs(s) > 0 /\
      number_of_realtime_outputs(s) > 0 /\
      number_of_non_realtime_inputs(s) > 0 /\
      number_of_non_realtime_outputs(s) > 0 /\
      Len(s.chains) > 1)
  THEN [s EXCEPT !.multitrack_mode_rep = TRUE]
  ELSE [s EXCEPT !.multitrack_mode_rep = FALSE]

select_multitrack_mode(s) ==
  IF ~(s.multitrack_mode_override_rep = TRUE /\ s.multitrack_mode_rep # TRUE) /\
     ((s.multitrack_mode_override_rep = TRUE /\ s.multitrack_mode_rep = TRUE) \/
      (number_of_realtime_inputs(s) > 0 /\
       number_of_realtime_outputs(s) > 0 /\
       number_of_non_realtime_inputs(s) > 0 /\
       number_of_non_realtime_outputs(s) > 0 /\
       Len(s.chains) > 1))
  THEN [s EXCEPT !.multitrack_mode_rep = TRUE]
  ELSE [s EXCEPT !.multitrack_mode_rep = FALSE]

\* a selection without case 3 (one-way realtime operation without chain
\* operators)
select_auto_mode_no_case_3(s) ==
  IF has_realtime_objects(s)
  THEN IF s.multitrack_mode_rep = TRUE
       THEN [s EXCEPT !.active_buffering_mode_rep = cs_bmode_rt]
       ELSE IF s.rtcaps_rep # TRUE
       THEN [toggle_raised_priority(s, FALSE)
               EXCEPT !.active_buffering_mode_rep = cs_bmode_rt]
       ELSE [s EXCEPT !.active_buffering_mode_rep = cs_bmode_rtlowlatency]
  ELSE [s EXCEPT !.active_buffering_mode_rep = cs_bmode_nonrt]

\* the branch taken when buffering_mode() == cs_bmode_auto
select_auto_mode(s) ==
  IF has_realtime_objects(s)
  THEN IF s.multitrack_mode_rep = TRUE
       THEN [s EXCEPT !.active_buffering_mode_rep = cs_bmode_rt]
       ELSE IF s.rtcaps_rep # TRUE
       THEN [toggle_raised_priority(s, FALSE)
               EXCEPT !.active_buffering_mode_rep = cs_bmode_rt]
       ELSE IF number_of_chain_operators(s) = 0 /\
               (number_of_realtime_inputs(s) = 0 \/
                number_of_realtime_outputs(s) = 0)
       THEN [s EXCEPT !.active_buffering_mode_rep = cs_bmode_rt]
       ELSE [s EXCEPT !.active_buffering_mode_rep = cs_bmode_rtlowlatency]
  ELSE [s EXCEPT !.active_buffering_mode_rep = cs_bmode_nonrt]

\* the switch over active_buffering_mode_rep
select_active_parameters(s) ==
  CASE s.active_buffering_mode_rep = cs_bmode_nonrt ->
         [s EXCEPT !.bmode_active_rep = s.bmode_nonrt_rep]
    [] s.active_buffering_mode_rep = cs_bmode_rt ->
         [s EXCEPT !.bmode_active_rep = s.bmode_rt_rep]
    [] s.active_buffering_mode_rep = cs_bmode_rtlowlatency ->
         [s EXCEPT !.bmode_active_rep = s.bmode_rtlowlatency_rep]
    [] OTHER -> s

select_active_buffering_mode(s) ==
  LET s0 == IF s.buffering_mode_rep = cs_bmode_none
            THEN [s EXCEPT !.active_buffering_mode_rep = cs_bmode_auto]
            ELSE s
      s1 == select_multitrack_mode(s0)
      s2 == IF s1.buffering_mode_rep = cs_bmode_auto
            THEN select_auto_mode(s1)
            ELSE [s1 EXCEPT !.active_buffering_mode_rep = s1.buffering_mode_rep]
  IN select_active_parameters(s2)

(***************************************************************************)
(* Proxy / direct switching                                                *)
(***************************************************************************)
Direct(n) == [wrap |-> FALSE, child |-> n]
Proxy(n) == [wrap |-> TRUE, child |-> n]

\* add_audio_object_helper(aio), aio being the direct object at slot n:
\* the front object and the effect on proxy_clients_rep
add_audio_object_helper_wraps(aio) == ~IsDevice(aio) /\ ~IsLoop(aio)

\* remove_audio_object_helper(aio), aio being a front entry
remove_audio_object_helper(s, front) ==
  IF front.wrap
  THEN [s EXCEPT !.proxy_clients_rep = @ - 1]
  ELSE s

RECURSIVE switch_to_direct_mode_helper(_, _, _)
switch_to_direct_mode_helper(objs, clients, n) ==
  IF n > Len(objs) THEN [objs |-> objs, clients |-> clients]
  ELSE IF objs[n].wrap
       THEN switch_to_direct_mode_helper(SetAt(objs, n, Direct(n)), clients - 1, n + 1)
       ELSE switch_to_direct_mode_helper(objs, clients, n + 1)

\* a switch to direct mode that does not count the proxies it deletes
switch_to_direct_mode_keeping_count(s) ==
  LET i == switch_to_direct_mode_helper(s.inputs, s.proxy_clients_rep, 1)
      o == switch_to_direct_mode_helper(s.outputs, i.clients, 1)
  IN [s EXCEPT !.inputs = i.objs, !.outputs = o.objs]

switch_to_direct_mode(s) ==
  LET i == switch_to_direct_mode_helper(s.inputs, s.proxy_clients_rep, 1)
      o == switch_to_direct_mode_helper(s.outputs, i.clients, 1)
  IN [s EXCEPT !.inputs = i.objs, !.outputs = o.objs,
               !.proxy_clients_rep = o.clients]

RECURSIVE switch_to_proxy_mode_helper(_, _, _, _)
switch_to_proxy_mode_helper(objs, directobjs, clients, n) ==
  IF n > Len(directobjs) THEN [objs |-> objs, clients |-> clients]
  ELSE IF add_audio_object_helper_wraps(directobjs[n])
       THEN switch_to_proxy_mode_helper(SetAt(objs, n, Proxy(n)), directobjs,
                                        clients + 1, n + 1)
       ELSE switch_to_proxy_mode_helper(SetAt(objs, n, Direct(n)), directobjs,
                                        clients, n + 1)

\* a switch to proxy mode whose wrappers all front the first direct object
switch_to_proxy_mode_wrapping_first(s) ==
  LET i == switch_to_proxy_mode_helper(s.inputs, s.inputs_direct_rep,
                                       s.proxy_clients_rep, 1)
      o == switch_to_proxy_mode_helper(s.outputs, s.outputs_direct_rep,
                                       i.clients, 1)
  IN [s EXCEPT !.inputs = [n \in Idx(i.objs) |-> [i.objs[n] EXCEPT !.child = 1]],
               !.outputs = [n \in Idx(o.objs) |-> [o.objs[n] EXCEPT !.child = 1]],
               !.proxy_clients_rep = o.clients]

switch_to_proxy_mode(s) ==
  LET i == switch_to_proxy_mode_helper(s.inputs, s.inputs_direct_rep,
                                       s.proxy_clients_rep, 1)
      o == switch_to_proxy_mode_helper(s.outputs, s.outputs_direct_rep,
                                       i.clients, 1)
  IN [s EXCEPT !.inputs = i.objs, !.outputs = o.objs,
               !.proxy_clients_rep = o.clients]

\* lock_all_memory(): mlockall() succeeds (mlock_ok) or fails
lock_all_memory(s, mlock_ok) ==
  IF mlock_ok THEN [s EXCEPT !.memory_locked_rep = TRUE] ELSE s

unlock_all_memory(s) == [s EXCEPT !.memory_locked_rep = FALSE]

set_buffer_defaults(s, buffers, bsize) ==
  [s EXCEPT !.pserver_rep = [buffercount_rep |-> buffers, buffersize_rep |-> bsize]]

enable_active_buffering_mode(s, mlock_ok) ==
  LET s1 == IF raised_priority(s) = TRUE
            THEN lock_all_memory(s, mlock_ok)
            ELSE unlock_all_memory(s)
  IN IF double_buffering(s1) = TRUE
     THEN LET s2 ==
                IF has_realtime_objects(s1) # TRUE
                THEN [switch_to_direct_mode(s1)
                        EXCEPT !.bmode_active_rep.double_buffering = FALSE]
                ELSE IF has_nonrealtime_objects(s1) # TRUE
                THEN [switch_to_direct_mode(s1)
                        EXCEPT !.bmode_active_rep.double_buffering = FALSE]
                ELSE IF s1.proxy_clients_rep = 0
                THEN switch_to_proxy_mode(s1)
                ELSE s1
          IN set_buffer_defaults(s2, double_buffer_size(s2) \div buffersize(s2),
                                 buffersize(s2))
     ELSE IF s1.proxy_clients_rep > 0
          THEN switch_to_direct_mode(s1)
          ELSE s1

(***************************************************************************)
(* Chains                                                                  *)
(***************************************************************************)
add_chain_helper(s, name) == [s EXCEPT !.chains = Append(@, NewChain(name))]

add_default_chain(s) ==
  [add_chain_helper(s, "default")
     EXCEPT !.selected_chainids = Append(@, "default")]

\* add_new_chains(newchains) with one name
add_new_chains(s, name) ==
  IF \E q \in Idx(s.chains) : s.chains[q].name = name
  THEN s
  ELSE add_chain_helper(s, name)

\* CHAIN::is_valid(): the chain has an input and an output
CHAIN_is_valid(c) == c.input # -1 /\ c.output # -1

is_valid_for_connection(s) ==
  IF Len(s.inputs) = 0 THEN FALSE
  ELSE IF Len(s.outputs) = 0 THEN FALSE
  ELSE IF Len(s.chains) = 0 THEN FALSE
  ELSE \A q \in Idx(s.chains) : CHAIN_is_valid(s.chains[q])

IsSelected(s, name) == \E p \in Idx(s.selected_chainids) : s.selected_chainids[p] = name

\* an attach that leaves the chains connected to obj connected
attach_input_keeping_connected(s, c) ==
  [s EXCEPT !.chains =
     [q \in Idx(s.chains) |->
        IF IsSelected(s, s.chains[q].name)
        THEN [s.chains[q] EXCEPT !.input = c]
        ELSE s.chains[q]]]

\* obj is the front object at slot c of s.inputs
attach_input_to_selected_chains(s, c) ==
  [s EXCEPT !.chains =
     [q \in Idx(s.chains) |->
        IF IsSelected(s, s.chains[q].name)
        THEN [s.chains[q] EXCEPT !.input = c]
        ELSE IF s.chains[q].input = c
        THEN [s.chains[q] EXCEPT !.input = -1]
        ELSE s.chains[q]]]

\* obj is the front object at slot c of s.outputs
attach_output_to_selected_chains(s, c) ==
  [s EXCEPT !.chains =
     [q \in Idx(s.chains) |->
        IF IsSelected(s, s.chains[q].name)
        THEN [s.chains[q] EXCEPT !.output = c]
        ELSE IF s.chains[q].output = c
        THEN [s.chains[q] EXCEPT !.output = -1]
        ELSE s.chains[q]]]

(***************************************************************************)
(* Adding and removing audio objects                                       *)
(***************************************************************************)
add_input(s, t) ==
  LET aio == NewObject(t, buffersize(s))
      n == Len(s.inputs) + 1
      wraps == add_audio_object_helper_wraps(aio)
      s1 == [s EXCEPT !.inputs = Append(@, IF wraps THEN Proxy(n) ELSE Direct(n)),
                      !.inputs_direct_rep = Append(@, aio),
                      !.proxy_clients_rep = IF wraps THEN @ + 1 ELSE @]
  IN attach_input_to_selected_chains(s1, n)

add_output(s, t) ==
  LET aio == NewObject(t, buffersize(s))
      n == Len(s.outputs) + 1
      wraps == add_audio_object_helper_wraps(aio)
      s1 == [s EXCEPT !.outputs = Append(@, IF wraps THEN Proxy(n) ELSE Direct(n)),
                      !.outputs_direct_rep = Append(@, aio),
                      !.proxy_clients_rep = IF wraps THEN @ + 1 ELSE @]
  IN attach_output_to_selected_chains(s1, n)

\* label() of a front object is the label of the object behind it
RECURSIVE remove_audio_input_from(_, _, _)
remove_audio_input_from(s, label, n) ==
  IF n > Len(s.inputs) THEN s
  ELSE IF s.inputs_direct_rep[s.inputs[n].child].label = label
       THEN LET s0 == remove_audio_object_helper(s, s.inputs[n])
                s1 == delete_object(s0, s.inputs_direct_rep[n])
                s2 == [s1 EXCEPT
                         !.chains = [q \in Idx(s1.chains) |->
                                       IF s1.chains[q].input = n
                                       THEN [s1.chains[q] EXCEPT !.input = -1]
                                       ELSE s1.chains[q]],
                         !.inputs[n] = Direct(n),
                         !.inputs_direct_rep[n] = NULLFILE]
            IN remove_audio_input_from(s2, label, n + 1)
       ELSE remove_audio_input_from(s, label, n + 1)

\* a removal that stops at the first slot whose label matches
remove_audio_input_first_match(s, label) ==
  IF \E n \in Idx(s.inputs) : s.inputs_direct_rep[n].label = label
  THEN LET n == CHOOSE n \in Idx(s.inputs) :
                  /\ s.inputs_direct_rep[n].label = label
                  /\ \A m \in 1..(n - 1) : s.inputs_direct_rep[m].label # label
           s0 == remove_audio_object_helper(s, s.inputs[n])
       IN [s0 EXCEPT
             !.chains = [q \in Idx(s0.chains) |->
                           IF s0.chains[q].input = n
                           THEN [s0.chains[q] EXCEPT !.input = -1]
                           ELSE s0.chains[q]],
             !.inputs[n] = Direct(n),
             !.inputs_direct_rep[n] = NULLFILE]
  ELSE s

remove_audio_input(s, label) == remove_audio_input_from(s, label, 1)

RECURSIVE remove_audio_output_from(_, _, _)
remove_audio_output_from(s, label, n) ==
  IF n > Len(s.outputs) THEN s
  ELSE IF s.outputs_direct_rep[s.outputs[n].child].label = label
       THEN LET s0 == remove_audio_object_helper(s, s.outputs[n])
                s1 == delete_object(s0, s.outputs_direct_rep[n])
                s2 == [s1 EXCEPT
                         !.chains = [q \in Idx(s1.chains) |->
                                       IF s1.chains[q].output = n
                                       THEN [s1.chains[q] EXCEPT !.output = -1]
                                       ELSE s1.chains[q]],
                         !.outputs[n] = Direct(n),
                         !.outputs_direct_rep[n] = NULLFILE]
            IN remove_audio_output_from(s2, label, n + 1)
       ELSE remove_audio_output_from(s, label, n + 1)

remove_audio_output(s, label) == remove_audio_output_from(s, label, 1)

\* add_chain_operator(cotmp): the operator goes to the first selected chain
\* that exists
add_chain_operator(s, cotmp) ==
  LET hits == {<<p, q>> \in Idx(s.selected_chainids) \X Idx(s.chains) :
                 s.selected_chainids[p] = s.chains[q].name}
  IN IF hits = {} THEN s
     ELSE LET first == CHOOSE h \in hits :
                         \A g \in hits : h[1] < g[1] \/ (h[1] = g[1] /\ h[2] <= g[2])
          IN [s EXCEPT !.chains[first[2]].cops = @ + cotmp]

add_midi_device(s) == [s EXCEPT !.midi_devices = Append(@, [open |-> FALSE])]

(***************************************************************************)
(* enable() and disable()                                                  *)
(*                                                                         *)
(* The environment of one enable() call is `env`:                          *)
(*   env.mlock_ok  whether mlockall() succeeds;                            *)
(*   env.side, env.idx, env.how  the object whose open() fails in this     *)
(*     call, if it is called: side "in", "out" or "midi" (or "none"),      *)
(*     idx its slot, how = "throw" (open() throws SETUP_ERROR) or          *)
(*     "silent" (open() returns and is_open() stays false).                *)
(* A call returns [s |-> the chainsetup after the call, err |-> the error  *)
(* it throws, open_failed |-> whether an open() of this call failed],      *)
(* err.kind = "none" when it returns normally.                             *)
(***************************************************************************)
NoError == [kind |-> "none", obj_rate |-> 0, engine_rate |-> 0]
OpenError(kind) == [kind |-> kind, obj_rate |-> 0, engine_rate |-> 0]

Returns(s) == [s |-> s, err |-> NoError, open_failed |-> FALSE]
Throws(s, e, open_failed) == [s |-> s, err |-> e, open_failed |-> open_failed]

open_outcome(env, side, n) ==
  IF env.side = side /\ env.idx = n THEN env.how ELSE "ok"

\* AUDIO_IO::open() of a closed object that succeeds: a format-locked
\* object takes the sample rate of its medium
AUDIO_IO_open(o) ==
  [o EXCEPT !.open = TRUE,
            !.srate = IF o.native # 0 THEN o.native ELSE @]

\* set_samples_per_second() of an audio object: the format of an opened
\* object is frozen until it is closed
AUDIO_IO_set_samples_per_second(o, v) ==
  IF o.open THEN o ELSE [o EXCEPT !.srate = v]

\* a check_object_samplerate() that accepts every rate
check_object_samplerate_accepts_all(obj, srate) == NoError

\* check_object_samplerate(obj, srate): the error thrown, if any
check_object_samplerate(obj, srate) ==
  IF obj.srate # srate
  THEN [kind |-> "samplerate", obj_rate |-> obj.srate, engine_rate |-> srate]
  ELSE NoError

\* enable_audio_object_helper(aobj) on the direct object aobj (a proxy
\* passes set_buffersize() and open() on to its child): the object after
\* the call and whether open() threw
enable_audio_object_helper(s, aobj, outcome) ==
  LET o1 == [aobj EXCEPT !.buffersize = buffersize(s)]
      o2 == IF IsDevice(o1)
            THEN [o1 EXCEPT !.max_buffers = max_buffers(s),
                            !.ignore_xruns = s.ignore_xruns_rep]
            ELSE o1
  IN IF o2.open = FALSE
     THEN CASE outcome = "ok" -> [obj |-> AUDIO_IO_open(o2), threw |-> FALSE]
            [] outcome = "throw" -> [obj |-> o2, threw |-> TRUE]
            [] OTHER -> [obj |-> o2, threw |-> FALSE]
     ELSE [obj |-> o2, threw |-> FALSE]

\* step 2 of enable(): open input devices, from slot n on
RECURSIVE enable_open_inputs(_, _, _)
enable_open_inputs(s, env, n) ==
  IF n > Len(s.inputs) THEN Returns(s)
  ELSE LET c == s.inputs[n].child
           r == enable_audio_object_helper(s, s.inputs_direct_rep[c],
                                           open_outcome(env, "in", n))
           s1 == [s EXCEPT !.inputs_direct_rep[c] = r.obj]
       IN IF r.threw THEN Throws(s1, OpenError("SETUP_ERROR"), TRUE)
          ELSE IF r.obj.open # TRUE THEN Throws(s1, OpenError("open failed"), TRUE)
          ELSE enable_open_inputs(s1, env, n + 1)

\* step 3 of enable(): the first input whose rate differs from the first
\* input's throws
RECURSIVE enable_check_inputs(_, _, _)
enable_check_inputs(s, first_srate, n) ==
  IF n > Len(s.inputs) THEN NoError
  ELSE LET e == IF n = 1 THEN NoError
                ELSE check_object_samplerate(
                       s.inputs_direct_rep[s.inputs[n].child], first_srate)
       IN IF e.kind # "none" THEN e
          ELSE enable_check_inputs(s, first_srate, n + 1)

set_samples_per_second(s, new_value) ==
  [s EXCEPT
     !.inputs_direct_rep =
        [n \in Idx(s.inputs_direct_rep) |->
           AUDIO_IO_set_samples_per_second(s.inputs_direct_rep[n], new_value)],
     !.outputs_direct_rep =
        [n \in Idx(s.outputs_direct_rep) |->
           AUDIO_IO_set_samples_per_second(s.outputs_direct_rep[n], new_value)],
     !.samples_per_second = new_value]

\* step 5 of enable(): open output devices, from slot n on
RECURSIVE enable_open_outputs(_, _, _, _)
enable_open_outputs(s, env, first_srate, n) ==
  IF n > Len(s.outputs) THEN Returns(s)
  ELSE LET c == s.outputs[n].child
           r == enable_audio_object_helper(s, s.outputs_direct_rep[c],
                                           open_outcome(env, "out", n))
           s1 == [s EXCEPT !.outputs_direct_rep[c] = r.obj]
           e == check_object_samplerate(r.obj, first_srate)
       IN IF r.threw THEN Throws(s1, OpenError("SETUP_ERROR"), TRUE)
          ELSE IF r.obj.open # TRUE THEN Throws(s1, OpenError("open failed"), TRUE)
          ELSE IF e.kind # "none" THEN Throws(s1, e, FALSE)
          ELSE enable_open_outputs(s1, env, first_srate, n + 1)

\* step 7 of enable(): enable all MIDI devices, from slot n on
RECURSIVE enable_open_midi(_, _, _)
enable_open_midi(s, env, n) ==
  IF n > Len(s.midi_devices) THEN Returns(s)
  ELSE IF s.midi_devices[n].open # TRUE
       THEN LET outcome == open_outcome(env, "midi", n)
            IN IF outcome = "ok"
               THEN enable_open_midi([s EXCEPT !.midi_devices[n].open = TRUE],
                                     env, n + 1)
               ELSE IF outcome = "throw"
               THEN Throws(s, OpenError("MIDI open threw"), TRUE)
               ELSE Throws(s, OpenError("Unable to open MIDI-device"), TRUE)
       ELSE enable_open_midi(s, env, n + 1)

\* steps 6 and 7 of enable(), reached when step 5 returned r5
enable_midi_devices(r5, env) ==
  IF r5.err.kind # "none" THEN r5
  ELSE enable_open_midi(
         IF r5.s.midi_server_enabled # TRUE /\ Len(r5.s.midi_devices) > 0
         THEN [r5.s EXCEPT !.midi_server_enabled = TRUE]
         ELSE r5.s,
         env, 1)

\* steps 4 and 5 of enable(), reached when step 3 gave e3
enable_outputs(s, env, first_srate, e3) ==
  IF e3.kind # "none" THEN Throws(s, e3, FALSE)
  ELSE enable_midi_devices(
         enable_open_outputs(set_samples_per_second(s, first_srate),
                             env, first_srate, 1),
         env)

\* the sample rate of the first input after step 2
first_input_srate(s) ==
  IF Len(s.inputs) = 0 THEN 0
  ELSE s.inputs_direct_rep[s.inputs[1].child].srate

\* an enable() that opens the outputs before it compares the inputs' rates
enable_inputs_opened_outputs_first(r2, env) ==
  IF r2.err.kind # "none" THEN r2
  ELSE LET first_srate == first_input_srate(r2.s)
           r5 == enable_open_outputs(set_samples_per_second(r2.s, first_srate),
                                     env, first_srate, 1)
           e3 == enable_check_inputs(r2.s, first_srate, 1)
       IN IF r5.err.kind # "none" THEN r5
          ELSE IF e3.kind # "none" THEN Throws(r5.s, e3, FALSE)
          ELSE enable_midi_devices(r5, env)

\* step 3 of enable(), reached when step 2 returned r2
enable_inputs_opened(r2, env) ==
  IF r2.err.kind # "none" THEN r2
  ELSE enable_outputs(r2.s, env, first_input_srate(r2.s),
                      enable_check_inputs(r2.s, first_input_srate(r2.s), 1))

\* the body of `if (is_enabled_rep != true) { ... }`
enable_body(s, env) ==
  enable_inputs_opened(
    enable_open_inputs(
      enable_active_buffering_mode(select_active_buffering_mode(s),
                                   env.mlock_ok),
      env, 1),
    env)

\* an enable() that sets is_enabled_rep whether or not its body threw
enable_sets_flag_on_error(s, env) ==
  IF s.is_enabled_rep # TRUE
  THEN LET r == enable_body(s, env)
       IN [r EXCEPT !.s.is_enabled_rep = TRUE]
  ELSE Returns([s EXCEPT !.is_enabled_rep = TRUE])

enable_without_enabled_test(s, env) ==
  LET r == enable_body(s, env)
  IN IF r.err.kind = "none"
     THEN Returns([r.s EXCEPT !.is_enabled_rep = TRUE])
     ELSE r

enable(s, env) ==
  IF s.is_enabled_rep # TRUE
  THEN LET r == enable_body(s, env)
       IN IF r.err.kind = "none"
          THEN Returns([r.s EXCEPT !.is_enabled_rep = TRUE])
          ELSE r
  ELSE Returns([s EXCEPT !.is_enabled_rep = TRUE])

CloseAll(objs) == [n \in Idx(objs) |-> [objs[n] EXCEPT !.open = FALSE]]

disable(s) ==
  IF s.is_enabled_rep = TRUE
  THEN [s EXCEPT !.inputs_direct_rep = CloseAll(@),
                 !.outputs_direct_rep = CloseAll(@),
                 !.midi_server_enabled = FALSE,
                 !.midi_devices = CloseAll(@),
                 !.is_enabled_rep = FALSE]
  ELSE s

(***************************************************************************)
(* The chainsetup after construction (set_defaults())                      *)
(***************************************************************************)
set_defaults(rtcaps) ==
  [inputs |-> <<>>, inputs_direct_rep |-> <<>>,
   outputs |-> <<>>, outputs_direct_rep |-> <<>>,
   chains |-> <<>>, selected_chainids |-> <<>>,
   midi_devices |-> <<>>, midi_server_enabled |-> FALSE,
   ignore_xruns_rep |-> TRUE,
   rtcaps_rep |-> rtcaps,
   proxy_clients_rep |-> 0,
   is_enabled_rep |-> FALSE,
   multitrack_mode_rep |-> FALSE,
   multitrack_mode_override_rep |-> FALSE,
   memory_locked_rep |-> FALSE,
   buffering_mode_rep |-> cs_bmode_auto,
   active_buffering_mode_rep |-> cs_bmode_none,
   samples_per_second |-> default_audio_format_rate,
   bmode_nonrt_rep |-> default_bmode_nonrt_const,
   bmode_rt_rep |-> default_bmode_rt_const,
   bmode_rtlowlatency_rep |-> default_bmode_rtlowlatency_const,
   bmode_active_rep |-> default_bmode_nonrt_const,
   bmode_override_rep |-> NoOverride,
   pserver_rep |-> [buffercount_rep |-> buffercount_default,
                    buffersize_rep |-> buffersize_default],
   loop_map |-> {}, loop_deletes |-> NoLoopDeletes]

(***************************************************************************)
(* AUDIO_IO_PROXY_SERVER and its rings (audioio-proxy-server.cpp).         *)
(*                                                                         *)
(* A ring (AUDIO_IO_PROXY_BUFFER) is a cycle of slots sbufs_rep[0..N-1],   *)
(* a write index, a read index, a finished flag and an i/o direction; the  *)
(* number of buffers written and not yet read is `occupancy`.  A buffer is *)
(* modelled by its sequence number in the stream it belongs to (0: a slot  *)
(* never filled).                                                          *)
(* A client is the audio object behind the ring: `pos` counts the buffers  *)
(* it has read or written, `len` is the number of buffers a read client    *)
(* holds; clients_rep[p] == 0 is `null`.                                   *)
(***************************************************************************)
io_read == "io_read"
io_write == "io_write"

AUDIO_IO_PROXY_BUFFER(number_of_buffers, mode) ==
  [writeptr_rep |-> 0, readptr_rep |-> 0, occupancy |-> 0,
   finished_rep |-> 0, io_mode_rep |-> mode,
   sbufs_rep |-> [k \in 0..(number_of_buffers - 1) |-> 0]]

RingCapacity(b) == Cardinality(DOMAIN b.sbufs_rep)

read_space(b) == b.occupancy

write_space(b) == RingCapacity(b) - b.occupancy

advance_write_pointer(b) ==
  [b EXCEPT !.writeptr_rep = (@ + 1) % RingCapacity(b), !.occupancy = @ + 1]

advance_read_pointer(b) ==
  [b EXCEPT !.readptr_rep = (@ + 1) % RingCapacity(b), !.occupancy = @ - 1]

\* the audio object a proxy registers
NewClient(mode, len) == [null |-> FALSE, io_mode |-> mode, pos |-> 0, len |-> len]

\* AUDIO_IO::finished() of a client: a read client is finished once it has
\* delivered its last buffer
client_finished(c) == c.io_mode = io_read /\ c.pos >= c.len

\* AUDIO_IO_PROXY_SERVER()
AUDIO_IO_PROXY_SERVER_new ==
  [buffercount_rep |-> buffercount_default,
   thread_running_rep |-> FALSE,
   running_rep |-> 0, full_rep |-> 0,
   stop_request_rep |-> 0, exit_request_rep |-> 0,
   clients_rep |-> <<>>, buffers_rep |-> <<>>]

AUDIO_IO_PROXY_SERVER_set_buffer_defaults(s, buffers) ==
  [s EXCEPT !.buffercount_rep = buffers]

register_client(s, aobject) ==
  [s EXCEPT !.clients_rep = Append(@, aobject),
            !.buffers_rep = Append(@, AUDIO_IO_PROXY_BUFFER(s.buffercount_rep,
                                                            aobject.io_mode))]

unregister_client(s, p) == [s EXCEPT !.clients_rep[p].null = TRUE]

\* the worker thread before pthread_create(): it does not exist
NoThread == [pc |-> "none", p |-> 0, processed |-> 0, served |-> <<>>]

\* the engine thread outside every proxy call; nothing put or taken yet
EngineIdle(nclients) ==
  [pc |-> "idle", p |-> 0,
   put |-> [k \in 1..nclients |-> <<>>],
   taken |-> [k \in 1..nclients |-> <<>>],
   eos |-> [k \in 1..nclients |-> FALSE],
   started |-> FALSE,   \* start() has returned; no stop() or destruction since
   stopped |-> FALSE,   \* stop() was called on a running server; no start()
                        \* or destruction since
   late_stop |-> FALSE, \* that stop() came after the worker had cleared an
                        \* earlier request and before it cleared running_rep
   after_stop |-> [k \in 1..nclients |-> 0]]
                        \* client calls the worker made since that stop()

\* a proxy server that is constructed and never used
InitServerUnused ==
  /\ ps = AUDIO_IO_PROXY_SERVER_new
  /\ io = NoThread
  /\ eng = EngineIdle(0)

(***************************************************************************)
(* Bounds and input sets                                                   *)
(***************************************************************************)
MaxInputs == 2
MaxOutputs == 1
MaxMidi == 1
MaxOverrides == 2

\* the audio objects a caller adds: a file that takes the rate it is given,
\* a file that carries its own rate, a realtime device
FileA == [label |-> "a", kind |-> "file", native |-> 0]
FileB == [label |-> "b", kind |-> "file", native |-> 48000]
DeviceD == [label |-> "d", kind |-> "rt", native |-> 0]

LoopL == [label |-> "l", kind |-> "loop", native |-> 0]

Labels == {"a", "b", "d", "l", "null"}

NoFailure == [side |-> "none", idx |-> 0, how |-> "ok"]

OpenFailures(s) ==
  {NoFailure} \cup
  {[side |-> "in", idx |-> n, how |-> h] :
     n \in Idx(s.inputs), h \in {"throw", "silent"}} \cup
  {[side |-> "out", idx |-> n, how |-> h] :
     n \in Idx(s.outputs), h \in {"throw", "silent"}} \cup
  {[side |-> "midi", idx |-> n, how |-> h] :
     n \in Idx(s.midi_devices), h \in {"throw", "silent"}}

EnableEnvs(failures, mlock) ==
  {[mlock_ok |-> m, side |-> f.side, idx |-> f.idx, how |-> f.how] :
     m \in mlock, f \in failures}

(***************************************************************************)
(* Actions on the chainsetup.  `last` records the call just made (enable,  *)
(* disable, select, or any other) and the error it threw; for enable()     *)
(* and disable() also whether the chainsetup was enabled when the call     *)
(* was made.  The guards are the preconditions (DBC_REQUIRE) of the        *)
(* methods.                                                                *)
(***************************************************************************)
Called(op) ==
  [op |-> op, err |-> NoError, open_failed |-> FALSE, flushed |-> FALSE,
   was_enabled |-> FALSE]

\* a call recorded with its argument (a label, or the slot of an object)
CalledWith(op, arg) == Called(op) @@ [arg |-> arg]

\* add_default_chain() requires no chains and an unlocked chainsetup; it
\* does not require a disabled one
AddDefaultChain ==
  /\ Len(cs.chains) = 0
  /\ cs' = add_default_chain(cs)
  /\ last' = Called("other")
  /\ UNCHANGED psvars

AddInput(templates, max) ==
  /\ Len(cs.chains) > 0
  /\ cs.is_enabled_rep # TRUE
  /\ Len(cs.inputs) < max
  /\ \E t \in templates : cs' = add_input(cs, t)
  /\ last' = Called("other")
  /\ UNCHANGED psvars

AddOutput(templates, max) ==
  /\ Len(cs.chains) > 0
  /\ cs.is_enabled_rep # TRUE
  /\ Len(cs.outputs) < max
  /\ \E t \in templates : cs' = add_output(cs, t)
  /\ last' = Called("other")
  /\ UNCHANGED psvars

RemoveAudioInput ==
  /\ cs.is_enabled_rep # TRUE
  /\ \E l \in Labels :
       /\ \E n \in Idx(cs.inputs) : cs.inputs_direct_rep[n].label = l
       /\ cs' = remove_audio_input(cs, l)
       /\ last' = CalledWith("remove_audio_input", l)
  /\ UNCHANGED psvars

RemoveAudioOutput ==
  /\ cs.is_enabled_rep # TRUE
  /\ \E l \in Labels :
       /\ \E n \in Idx(cs.outputs) : cs.outputs_direct_rep[n].label = l
       /\ cs' = remove_audio_output(cs, l)
       /\ last' = CalledWith("remove_audio_output", l)
  /\ UNCHANGED psvars

AddMidiDevice ==
  /\ cs.is_enabled_rep # TRUE
  /\ Len(cs.midi_devices) < MaxMidi
  /\ cs' = add_midi_device(cs)
  /\ last' = Called("other")
  /\ UNCHANGED psvars

\* at most MaxOverrides fields are overridden at a time
CanOverride(f) ==
  \/ cs.bmode_override_rep[f].set
  \/ Cardinality({g \in BufparamFields : cs.bmode_override_rep[g].set}) < MaxOverrides

ToggleDoubleBuffering ==
  /\ CanOverride("double_buffering")
  /\ \E v \in BOOLEAN : cs' = toggle_double_buffering(cs, v)
  /\ last' = Called("other")
  /\ UNCHANGED psvars

Enable(envs) ==
  \E env \in envs :
    LET r == enable(cs, env)
    IN /\ cs' = r.s
       /\ last' = [op |-> "enable", err |-> r.err, open_failed |-> r.open_failed,
                  flushed |-> FALSE,
                  was_enabled |-> (cs.is_enabled_rep = TRUE)]
       /\ UNCHANGED psvars

Disable ==
  /\ cs' = disable(cs)
  /\ last' = [Called("disable") EXCEPT !.was_enabled = (cs.is_enabled_rep = TRUE)]
  /\ UNCHANGED psvars

(***************************************************************************)
(* SpecLife: the enable()/disable() lifecycle over file objects and MIDI   *)
(* devices, any open() failing.                                            *)
(***************************************************************************)
InitLife ==
  /\ cs = set_defaults(TRUE)
  /\ last = Called("other")
  /\ InitServerUnused

NextLife ==
  \/ AddDefaultChain
  \/ AddInput({FileA, FileB}, MaxInputs)
  \/ AddOutput({FileA, FileB}, MaxOutputs)
  \/ RemoveAudioInput
  \/ RemoveAudioOutput
  \/ AddMidiDevice
  \/ Enable(EnableEnvs(OpenFailures(cs), {TRUE}))
  \/ Disable

SpecLife == InitLife /\ [][NextLife]_vars

(***************************************************************************)
(* Lifecycle claims                                                        *)
(***************************************************************************)
EnableSucceeded == last.op = "enable" /\ last.err.kind = "none"
EnableFailed == last.op = "enable" /\ last.err.kind # "none"

AllObjects(s) ==
  {s.inputs_direct_rep[n] : n \in Idx(s.inputs_direct_rep)} \cup
  {s.outputs_direct_rep[n] : n \in Idx(s.outputs_direct_rep)}

OpenSet(s) ==
  {<<"in", n>> : n \in {m \in Idx(s.inputs_direct_rep) : s.inputs_direct_rep[m].open}}
  \cup
  {<<"out", n>> : n \in {m \in Idx(s.outputs_direct_rep) : s.outputs_direct_rep[m].open}}
  \cup
  {<<"midi", n>> : n \in {m \in Idx(s.midi_devices) : s.midi_devices[m].open}}

\* C2: whenever enable() completes successfully the chainsetup has at least
\* one input, one output and one chain, and every chain is valid.
C2_EnabledImpliesValid ==
  (EnableSucceeded /\ cs.is_enabled_rep) =>
    /\ Len(cs.inputs) > 0
    /\ Len(cs.outputs) > 0
    /\ Len(cs.chains) > 0
    /\ \A q \in Idx(cs.chains) : CHAIN_is_valid(cs.chains[q])

\* C3: after disable() returns, every input and output audio object of the
\* chainsetup is closed, whatever calls preceded it.
C3_DisableClosesAll ==
  last.op = "disable" => \A o \in AllObjects(cs) : ~o.open

\* C4: if an open() of an input, output or MIDI device fails during
\* enable(), enable() throws an error and is_enabled() is false afterwards.
C4_OpenFailureAborts ==
  (last.op = "enable" /\ last.open_failed) =>
    /\ last.err.kind \in {"SETUP_ERROR", "open failed",
                          "MIDI open threw", "Unable to open MIDI-device"}
    /\ cs.is_enabled_rep = FALSE

C4_Witness ==
  /\ last.op = "enable" /\ last.open_failed
  /\ last.err.kind = "Unable to open MIDI-device"
  /\ \E o \in AllObjects(cs) : o.open

\* C5: when enable() returns with an error, the set of open objects is the
\* same as before the call.
C5_FailedEnableUnwinds ==
  [][(last'.op = "enable" /\ last'.err.kind # "none") => OpenSet(cs') = OpenSet(cs)]_vars

InputObj(s, n) == s.inputs_direct_rep[s.inputs[n].child]
OutputObj(s, n) == s.outputs_direct_rep[s.outputs[n].child]

AllInputsOpen(s) == \A n \in Idx(s.inputs) : InputObj(s, n).open

\* the rate step 3 of enable() compares with: the first input's, 0 when
\* there is no input
FirstRate(s) == IF Len(s.inputs) = 0 THEN 0 ELSE InputObj(s, 1).srate

InputRatesDiffer(s) ==
  \E n \in Idx(s.inputs) : InputObj(s, n).srate # FirstRate(s)

OutputRateDiffers(s) ==
  \E n \in Idx(s.outputs) :
    OutputObj(s, n).open /\ OutputObj(s, n).srate # FirstRate(s)

SamplerateError ==
  /\ last.err.kind = "samplerate"
  /\ last.err.obj_rate # last.err.engine_rate
  /\ last.err.engine_rate = FirstRate(cs)
  /\ \E o \in AllObjects(cs) : o.open /\ o.srate = last.err.obj_rate

\* C6: enable() fails with an error naming both rates whenever, after
\* opening, an input reports a rate different from the first input's or an
\* output reports a rate different from the inputs' common rate; after a
\* successful enable() all inputs and outputs report one rate and the
\* chainsetup rate equals it.  (An open() that fails ends the call before
\* the objects after it are compared: that is the case of C4.)
C6_CommonRate ==
  last.op = "enable" =>
    /\ (AllInputsOpen(cs) /\ InputRatesDiffer(cs)) => SamplerateError
    /\ (AllInputsOpen(cs) /\ OutputRateDiffers(cs) /\ ~last.open_failed)
          => SamplerateError
    /\ last.err.kind = "samplerate" => SamplerateError
    /\ last.err.kind = "none" =>
         \A o \in AllObjects(cs) : o.srate = cs.samples_per_second

C6_Witness ==
  /\ last.op = "enable"
  /\ Len(cs.inputs) = 2 /\ AllInputsOpen(cs)
  /\ InputObj(cs, 1).srate = 44100 /\ InputObj(cs, 2).srate = 48000
  /\ last.err = [kind |-> "samplerate", obj_rate |-> 48000, engine_rate |-> 44100]

(***************************************************************************)
(* SpecRing: the proxy worker thread (io_thread()) and the engine thread   *)
(* on the rings of a proxy server, every step of one thread interleaved    *)
(* with every step of the other.                                           *)
(***************************************************************************)
RingSize == 2
MaxItems == 3
MaxClients == 2

Slot(b, ptr) == b.sbufs_rep[ptr]

\* start(), up to thread_running_rep = true
Start ==
  /\ eng.pc = "idle"
  /\ IF ps.thread_running_rep # TRUE
     THEN /\ ps' = [ps EXCEPT !.thread_running_rep = TRUE]
          /\ io' = [pc |-> "top", p |-> 0, processed |-> 0, served |-> <<>>]
     ELSE UNCHANGED <<ps, io>>
  /\ eng' = [eng EXCEPT !.pc = "start_clear_stop", !.stopped = FALSE,
                        !.late_stop = FALSE]
  /\ UNCHANGED csvars

\* start(): stop_request_rep.set(0)
StartClearStop ==
  /\ eng.pc = "start_clear_stop"
  /\ ps' = [ps EXCEPT !.stop_request_rep = 0]
  /\ eng' = [eng EXCEPT !.pc = "start_set_running"]
  /\ UNCHANGED <<io, cs, last>>

\* start(): running_rep.set(1)
StartSetRunning ==
  /\ eng.pc = "start_set_running"
  /\ ps' = [ps EXCEPT !.running_rep = 1]
  /\ eng' = [eng EXCEPT !.pc = "idle", !.started = TRUE]
  /\ UNCHANGED <<io, cs, last>>

\* stop()
Stop ==
  /\ eng.pc = "idle"
  /\ ps' = [ps EXCEPT !.stop_request_rep = 1]
  /\ eng' = [eng EXCEPT !.started = FALSE,
                        !.stopped = (ps.running_rep = 1),
                        !.late_stop = (ps.running_rep = 1 /\ io.pc = "stop_running"),
                        !.after_stop = [k \in DOMAIN @ |-> 0]]
  /\ UNCHANGED <<io, cs, last>>

\* a destructor that does not request the stop
Destroy_without_stop_request ==
  /\ eng.pc = "idle"
  /\ eng' = [eng EXCEPT !.pc = "destroy_set_exit", !.started = FALSE,
                        !.stopped = FALSE, !.late_stop = FALSE]
  /\ UNCHANGED <<ps, io, cs, last>>

\* ~AUDIO_IO_PROXY_SERVER(): stop_request_rep.set(1)
Destroy ==
  /\ eng.pc = "idle"
  /\ ps' = [ps EXCEPT !.stop_request_rep = 1]
  /\ eng' = [eng EXCEPT !.pc = "destroy_set_exit", !.started = FALSE,
                        !.stopped = FALSE, !.late_stop = FALSE]
  /\ UNCHANGED <<io, cs, last>>

\* ~AUDIO_IO_PROXY_SERVER(): exit_request_rep.set(1)
DestroySetExit ==
  /\ eng.pc = "destroy_set_exit"
  /\ ps' = [ps EXCEPT !.exit_request_rep = 1]
  /\ eng' = [eng EXCEPT !.pc = "destroy_join"]
  /\ UNCHANGED <<io, cs, last>>

\* ~AUDIO_IO_PROXY_SERVER(): pthread_join() returns once the worker has
\* left io_thread(); there is nothing to join when no thread was created
DestroyJoin ==
  /\ eng.pc = "destroy_join"
  /\ ps.thread_running_rep = TRUE => io.pc = "exited"
  /\ eng' = [eng EXCEPT !.pc = "destroyed"]
  /\ UNCHANGED <<ps, io, cs, last>>

\* io_thread(): the test of running_rep at the top of the loop
IoTop ==
  /\ io.pc = "top"
  /\ io' = IF ps.running_rep = 0
           THEN [io EXCEPT !.pc = "sleep"]
           ELSE [pc |-> "client", p |-> 1, processed |-> 0, served |-> <<>>]
  /\ UNCHANGED <<ps, eng, cs, last>>

\* io_thread(): usleep() while not running, then the test of exit_request_rep
IoIdleSleep ==
  /\ io.pc = "sleep"
  /\ io' = IF ps.exit_request_rep = 1
           THEN [io EXCEPT !.pc = "exited"]
           ELSE [io EXCEPT !.pc = "top"]
  /\ UNCHANGED <<ps, eng, cs, last>>

\* a worker that does not test write_space() and read_space()
client_branch_without_space_test(c, b) ==
  IF c.null \/ b.finished_rep = 1 THEN "skip"
  ELSE IF b.io_mode_rep = io_read THEN "read_buffer"
  ELSE "write_buffer"

\* a worker that passes over a client it has found ready
client_branch_skips_ready(c, b) == "skip"

\* what the body of the loop does with client c and its ring b: skip it, or
\* read a buffer from it, or write a buffer to it
client_branch(c, b) ==
  IF c.null \/ b.finished_rep = 1 THEN "skip"
  ELSE IF b.io_mode_rep = io_read
  THEN IF write_space(b) > 0 THEN "read_buffer" ELSE "skip"
  ELSE IF read_space(b) > 0 THEN "write_buffer" ELSE "skip"

\* io_thread(): the head of the loop over the clients, up to the test of
\* write_space() or read_space()
IoNextClient ==
  /\ io.pc = "client"
  /\ io' =
       IF io.p > Len(ps.clients_rep)
       THEN [io EXCEPT !.pc = "stop_request"]
       ELSE IF client_branch(ps.clients_rep[io.p], ps.buffers_rep[io.p]) = "skip"
       THEN [io EXCEPT !.p = @ + 1]
       ELSE [io EXCEPT !.pc = client_branch(ps.clients_rep[io.p],
                                           ps.buffers_rep[io.p])]
  /\ UNCHANGED <<ps, eng, cs, last>>

\* clients_rep[p]->read_buffer(&sbufs_rep[writeptr_rep.get()])
IoReadBuffer ==
  /\ io.pc = "read_buffer"
  /\ LET b == ps.buffers_rep[io.p]
         c == ps.clients_rep[io.p]
     IN ps' = [ps EXCEPT
                 !.clients_rep[io.p].pos = c.pos + 1,
                 !.buffers_rep[io.p].sbufs_rep[b.writeptr_rep] = c.pos + 1]
  /\ io' = [io EXCEPT !.pc = "read_finished", !.served = Append(@, io.p)]
  /\ eng' = [eng EXCEPT !.after_stop[io.p] = IF eng.stopped THEN @ + 1 ELSE @]
  /\ UNCHANGED <<cs, last>>

\* if (clients_rep[p]->finished() == true) finished_rep.set(1), read client
IoReadFinished ==
  /\ io.pc = "read_finished"
  /\ ps' = IF client_finished(ps.clients_rep[io.p])
           THEN [ps EXCEPT !.buffers_rep[io.p].finished_rep = 1]
           ELSE ps
  /\ io' = [io EXCEPT !.pc = "advance_write"]
  /\ UNCHANGED <<eng, cs, last>>

\* advance_write_pointer(); ++processed: the buffer is put into the ring
IoAdvanceWrite ==
  /\ io.pc = "advance_write"
  /\ LET b == ps.buffers_rep[io.p]
     IN /\ ps' = [ps EXCEPT !.buffers_rep[io.p] = advance_write_pointer(b)]
        /\ eng' = [eng EXCEPT !.put[io.p] = Append(@, Slot(b, b.writeptr_rep))]
  /\ io' = [io EXCEPT !.pc = "client", !.p = @ + 1, !.processed = @ + 1]
  /\ UNCHANGED <<cs, last>>

\* clients_rep[p]->write_buffer(&sbufs_rep[readptr_rep.get()]): the buffer
\* is taken out of the ring
IoWriteBuffer ==
  /\ io.pc = "write_buffer"
  /\ LET b == ps.buffers_rep[io.p]
     IN /\ ps' = [ps EXCEPT !.clients_rep[io.p].pos = @ + 1]
        /\ eng' = [eng EXCEPT !.taken[io.p] = Append(@, Slot(b, b.readptr_rep)),
                              !.after_stop[io.p] = IF eng.stopped THEN @ + 1 ELSE @]
  /\ io' = [io EXCEPT !.pc = "write_finished", !.served = Append(@, io.p)]
  /\ UNCHANGED <<cs, last>>

\* if (clients_rep[p]->finished() == true) finished_rep.set(1), write client
IoWriteFinished ==
  /\ io.pc = "write_finished"
  /\ ps' = IF client_finished(ps.clients_rep[io.p])
           THEN [ps EXCEPT !.buffers_rep[io.p].finished_rep = 1]
           ELSE ps
  /\ io' = [io EXCEPT !.pc = "advance_read"]
  /\ UNCHANGED <<eng, cs, last>>

\* advance_read_pointer(); ++processed
IoAdvanceRead ==
  /\ io.pc = "advance_read"
  /\ ps' = [ps EXCEPT !.buffers_rep[io.p] = advance_read_pointer(@)]
  /\ io' = [io EXCEPT !.pc = "client", !.p = @ + 1, !.processed = @ + 1]
  /\ UNCHANGED <<eng, cs, last>>

\* if (stop_request_rep.get() == 1) stop_request_rep.set(0)
IoStopRequest ==
  /\ io.pc = "stop_request"
  /\ IF ps.stop_request_rep = 1
     THEN /\ ps' = [ps EXCEPT !.stop_request_rep = 0]
          /\ io' = [io EXCEPT !.pc = "stop_running"]
     ELSE /\ ps' = ps
          /\ io' = [io EXCEPT !.pc = "full"]
  /\ UNCHANGED <<eng, cs, last>>

\* a running_rep.set(0) that is left out
IoStopRunning_keeps_running ==
  /\ io.pc = "stop_running"
  /\ io' = [io EXCEPT !.pc = "full"]
  /\ UNCHANGED <<ps, eng, cs, last>>

\* running_rep.set(0)
IoStopRunning ==
  /\ io.pc = "stop_running"
  /\ ps' = [ps EXCEPT !.running_rep = 0]
  /\ io' = [io EXCEPT !.pc = "full"]
  /\ UNCHANGED <<eng, cs, last>>

\* a full flag that is set at the end of every pass
full_after_pass_always_set(processed) == 1

\* if (processed != 0) full_rep.set(0); else full_rep.set(1);
full_after_pass(processed) == IF processed # 0 THEN 0 ELSE 1

\* the end of a pass: full_rep.set(0) and continue, or full_rep.set(1) and
\* usleep()
IoFull ==
  /\ io.pc = "full"
  /\ ps' = [ps EXCEPT !.full_rep = full_after_pass(io.processed)]
  /\ io' = [io EXCEPT !.pc = "top"]
  /\ UNCHANGED <<eng, cs, last>>

(***************************************************************************)
(* The engine thread on a ring (the proxy wrapper's read_buffer() and      *)
(* write_buffer()).  Reading: with read_space() > 0 the engine copies the  *)
(* slot at the read index and advances the read index; with no data and    *)
(* the ring finished the stream has ended (eos); with no data otherwise    *)
(* it is an underrun and the ring is left alone.  Writing: with            *)
(* write_space() > 0 on a ring that is not finished the engine fills the   *)
(* slot at the write index and advances the write index.                   *)
(***************************************************************************)
EngReadBegin ==
  /\ eng.pc = "idle"
  /\ \E p \in Idx(ps.buffers_rep) :
       LET b == ps.buffers_rep[p]
       IN /\ b.io_mode_rep = io_read
          /\ ~ps.clients_rep[p].null
          /\ ~eng.eos[p]
          /\ \/ /\ read_space(b) > 0
                /\ eng' = [eng EXCEPT !.pc = "read_copy", !.p = p]
             \/ /\ read_space(b) = 0
                /\ b.finished_rep = 1
                /\ eng' = [eng EXCEPT !.eos[p] = TRUE]
  /\ UNCHANGED <<ps, io, cs, last>>

EngReadCopy ==
  /\ eng.pc = "read_copy"
  /\ LET b == ps.buffers_rep[eng.p]
     IN eng' = [eng EXCEPT !.pc = "read_advance",
                           !.taken[eng.p] = Append(@, Slot(b, b.readptr_rep))]
  /\ UNCHANGED <<ps, io, cs, last>>

EngReadAdvance ==
  /\ eng.pc = "read_advance"
  /\ ps' = [ps EXCEPT !.buffers_rep[eng.p] = advance_read_pointer(@)]
  /\ eng' = [eng EXCEPT !.pc = "idle"]
  /\ UNCHANGED <<io, cs, last>>

EngWriteBegin ==
  /\ eng.pc = "idle"
  /\ \E p \in Idx(ps.buffers_rep) :
       LET b == ps.buffers_rep[p]
       IN /\ b.io_mode_rep = io_write
          /\ ~ps.clients_rep[p].null
          /\ Len(eng.put[p]) < MaxItems
          /\ b.finished_rep = 0
          /\ write_space(b) > 0
          /\ eng' = [eng EXCEPT !.pc = "write_fill", !.p = p]
  /\ UNCHANGED <<ps, io, cs, last>>

EngWriteFill ==
  /\ eng.pc = "write_fill"
  /\ LET b == ps.buffers_rep[eng.p]
     IN ps' = [ps EXCEPT !.buffers_rep[eng.p].sbufs_rep[b.writeptr_rep] =
                             Len(eng.put[eng.p]) + 1]
  /\ eng' = [eng EXCEPT !.pc = "write_advance"]
  /\ UNCHANGED <<io, cs, last>>

EngWriteAdvance ==
  /\ eng.pc = "write_advance"
  /\ LET b == ps.buffers_rep[eng.p]
     IN /\ ps' = [ps EXCEPT !.buffers_rep[eng.p] = advance_write_pointer(b)]
        /\ eng' = [eng EXCEPT !.pc = "idle",
                              !.put[eng.p] = Append(@, Slot(b, b.writeptr_rep))]
  /\ UNCHANGED <<io, cs, last>>

\* the audio objects registered: files of 1..MaxItems buffers to read, files
\* to write
RingClients ==
  {NewClient(io_read, l) : l \in 1..MaxItems} \cup {NewClient(io_write, 0)}

RECURSIVE RegisterAll(_, _, _)
RegisterAll(s, clients, n) ==
  IF n > Len(clients) THEN s
  ELSE RegisterAll(register_client(s, clients[n]), clients, n + 1)

\* a server constructed, given rings of RingSize buffers, with one to
\* MaxClients clients registered, one of them possibly unregistered again
InitRing ==
  /\ cs = set_defaults(TRUE)
  /\ last = Called("other")
  /\ \E n \in 1..MaxClients :
       \E clients \in [1..n -> RingClients] :
         \E gone \in 0..n :
           LET s0 == AUDIO_IO_PROXY_SERVER_set_buffer_defaults(
                       AUDIO_IO_PROXY_SERVER_new, RingSize)
               s1 == RegisterAll(s0, clients, 1)
           IN /\ ps = IF gone = 0 THEN s1 ELSE unregister_client(s1, gone)
              /\ eng = EngineIdle(n)
  /\ io = NoThread

NextRing ==
  \/ Start
  \/ StartClearStop
  \/ StartSetRunning
  \/ Stop
  \/ IoTop
  \/ IoIdleSleep
  \/ IoNextClient
  \/ IoReadBuffer
  \/ IoReadFinished
  \/ IoAdvanceWrite
  \/ IoWriteBuffer
  \/ IoWriteFinished
  \/ IoAdvanceRead
  \/ IoStopRequest
  \/ IoStopRunning
  \/ IoFull
  \/ EngReadBegin
  \/ EngReadCopy
  \/ EngReadAdvance
  \/ EngWriteBegin
  \/ EngWriteFill
  \/ EngWriteAdvance

SpecRing == InitRing /\ [][NextRing]_vars

(***************************************************************************)
(* SpecServer: start(), stop() and the destruction of a server with all    *)
(* its clients registered, against the worker and the engine.  The worker  *)
(* thread is scheduled again and again, every client call returns, and a   *)
(* destructor that has begun runs on: weak fairness of the worker's steps  *)
(* and of the destructor's steps.                                          *)
(***************************************************************************)
\* the audio objects registered: a file of MaxItems buffers to read, a file
\* to write
ServerClients == {NewClient(io_read, MaxItems), NewClient(io_write, 0)}

InitServer ==
  /\ cs = set_defaults(TRUE)
  /\ last = Called("other")
  /\ \E n \in 1..MaxClients :
       \E clients \in [1..n -> ServerClients] :
         /\ ps = RegisterAll(AUDIO_IO_PROXY_SERVER_set_buffer_defaults(
                                AUDIO_IO_PROXY_SERVER_new, RingSize),
                             clients, 1)
         /\ eng = EngineIdle(n)
  /\ io = NoThread

IoStep ==
  \/ IoTop
  \/ IoIdleSleep
  \/ IoNextClient
  \/ IoReadBuffer
  \/ IoReadFinished
  \/ IoAdvanceWrite
  \/ IoWriteBuffer
  \/ IoWriteFinished
  \/ IoAdvanceRead
  \/ IoStopRequest
  \/ IoStopRunning
  \/ IoFull

DestroyStep == DestroySetExit \/ DestroyJoin

NextServer == NextRing \/ Destroy \/ DestroyStep

SpecServer ==
  InitServer /\ [][NextServer]_vars /\ WF_vars(IoStep) /\ WF_vars(DestroyStep)

\* the worker is inside a pass over the clients
InPass ==
  io.pc \in {"client", "read_buffer", "read_finished", "advance_write",
             "write_buffer", "write_finished", "advance_read"}

\* the worker is inside a call of a client object
InClientCall ==
  io.pc \in {"read_buffer", "read_finished", "write_buffer", "write_finished"}

\* the worker is Idle: it is not running and is at the top of its loop
WorkerIdle == ps.running_rep = 0 /\ io.pc \in {"top", "sleep"}

IsPrefix(a, b) == Len(a) <= Len(b) /\ \A k \in Idx(a) : a[k] = b[k]

\* C1: on every ring, in every interleaving of the worker and the engine,
\* the buffers the reader has taken out are the buffers the writer put in,
\* in order, none duplicated or overwritten, and none is lost: when the
\* reader has met the end of the stream (the ring is finished and empty) it
\* has taken out every buffer the writer put in.
C1_RingDelivers ==
  \A p \in Idx(ps.buffers_rep) :
    /\ IsPrefix(eng.taken[p], eng.put[p])
    /\ eng.eos[p] => eng.taken[p] = eng.put[p]

\* the part of C1 that does not depend on the finished flag
RingOrdered ==
  \A p \in Idx(ps.buffers_rep) :
    /\ IsPrefix(eng.taken[p], eng.put[p])
    /\ \A k \in Idx(eng.put[p]) : eng.put[p][k] = k

(***************************************************************************)
(* start(), stop() and destruction                                         *)
(***************************************************************************)
StopAtMostOneMore ==
  eng.stopped => \A p \in DOMAIN eng.after_stop : eng.after_stop[p] <= 1

NoTransferWhileNotRunning == ps.running_rep = 0 => ~InPass

StopRequestClearedUnlessLate ==
  (eng.stopped /\ WorkerIdle /\ ~eng.late_stop) => ps.stop_request_rep = 0

\* C11 as stated: after a stop() on a running server that no start()
\* follows, the worker makes at most one more call per client, does no
\* client call while it is not running, becomes Idle, and has then cleared
\* the stop request.
C11_StopClearsRequest ==
  /\ StopAtMostOneMore
  /\ NoTransferWhileNotRunning
  /\ (eng.stopped /\ WorkerIdle) => ps.stop_request_rep = 0

\* C11, amended: after a stop() on a running server that no start()
\* follows, the worker makes at most one more call per client, does no
\* client call while it is not running, and becomes Idle; the stop request
\* is cleared by then unless that stop() was called after the worker had
\* cleared an earlier request and before it cleared running_rep.
C11_StopMakesIdle ==
  /\ [](StopAtMostOneMore /\ NoTransferWhileNotRunning /\ StopRequestClearedUnlessLate)
  /\ (eng.stopped ~> (~eng.stopped \/ WorkerIdle))

C11_Witness ==
  /\ eng.stopped /\ WorkerIdle
  /\ ps.stop_request_rep = 0
  /\ \E p \in DOMAIN eng.after_stop : eng.after_stop[p] = 1

\* C12: after a start() that has returned and that no stop() and no
\* destruction follows, is_running() is true and stays true, in every
\* interleaving with the worker.
C12_StartSignalsRunning == eng.started => ps.running_rep = 1

Destroying == eng.pc \in {"destroy_set_exit", "destroy_join"}

\* C13: when a server is destroyed, whatever the worker is doing (Idle, in
\* the middle of a pass, a stop request pending), the worker leaves its
\* loop and the join returns, provided every client call returns; the
\* worker leaves the loop only from its idle branch (the sleep it takes
\* after it has found running_rep at 0), never from inside a pass, and
\* only on an exit request.
C13_CooperativeCancellation ==
  /\ Destroying ~> (eng.pc = "destroyed")
  /\ [](eng.pc = "destroyed" /\ ps.thread_running_rep = TRUE => io.pc = "exited")
  /\ [][(io.pc # "exited" /\ io'.pc = "exited") =>
          (io.pc = "sleep" /\ ps.exit_request_rep = 1)]_vars

\* the destructor's stop request was cleared by the worker: the worker was
\* running when the server was destroyed
C13_Witness ==
  /\ eng.pc = "destroyed"
  /\ io.pc = "exited"
  /\ ps.stop_request_rep = 0

(***************************************************************************)
(* The rings: finished flag, full flag, indices, order of service          *)
(***************************************************************************)
\* C14: once the finished flag of a ring the worker produces into is set,
\* the worker fills no slot of that ring and does not advance its write
\* index.
C14_NoWriteAfterFinished ==
  [][\A p \in Idx(ps.buffers_rep) :
       (ps.buffers_rep[p].io_mode_rep = io_read /\ ps.buffers_rep[p].finished_rep = 1) =>
         /\ ps'.buffers_rep[p].sbufs_rep = ps.buffers_rep[p].sbufs_rep
         /\ ps'.buffers_rep[p].writeptr_rep = ps.buffers_rep[p].writeptr_rep]_vars

\* C15: at the end of every pass full is set if the worker made no client
\* call in the pass and cleared if it made one; full changes at the end
\* of a pass only, so not while the worker is Idle.
C15_FullFlag ==
  [][/\ (io.pc = "full" /\ io'.pc # "full") =>
          ps'.full_rep = (IF Len(io.served) = 0 THEN 1 ELSE 0)
     /\ ps'.full_rep # ps.full_rep => (io.pc = "full" /\ io'.pc # "full")]_vars

\* a pass over a read ring without write space has set full
C15_Witness ==
  /\ io.pc = "top"
  /\ ps.running_rep = 1
  /\ ps.full_rep = 1
  /\ \E p \in Idx(ps.buffers_rep) :
       /\ ~ps.clients_rep[p].null
       /\ ps.buffers_rep[p].io_mode_rep = io_read
       /\ ps.buffers_rep[p].finished_rep = 0
       /\ write_space(ps.buffers_rep[p]) = 0

\* the reader of ring p has taken a buffer out of the slot at the read
\* index and has not yet advanced the read index
ReaderInSlot(p) ==
  \/ eng.pc = "read_advance" /\ eng.p = p
  \/ io.pc \in {"write_finished", "advance_read"} /\ io.p = p

\* the number of times the read index of ring p was advanced
Advanced(p) == Len(eng.taken[p]) - (IF ReaderInSlot(p) THEN 1 ELSE 0)

\* the number of buffers written into ring p and not yet read
Unread(p) == Len(eng.put[p]) - Advanced(p)

\* C16: on every ring both indices are within 0..N-1, read_space() is the
\* number of buffers written and not yet read, write_space() is N minus
\* that number, and the worker is filling a slot only with write_space() > 0
\* and draining a slot only with read_space() > 0.
C16_RingIndices ==
  /\ \A p \in Idx(ps.buffers_rep) :
       LET b == ps.buffers_rep[p]
           N == RingCapacity(b)
       IN /\ b.writeptr_rep \in 0..(N - 1)
          /\ b.readptr_rep \in 0..(N - 1)
          /\ b.writeptr_rep = Len(eng.put[p]) % N
          /\ b.readptr_rep = Advanced(p) % N
          /\ Unread(p) \in 0..N
          /\ read_space(b) = Unread(p)
          /\ write_space(b) = N - Unread(p)
  /\ io.pc \in {"read_buffer", "read_finished", "advance_write"} =>
       write_space(ps.buffers_rep[io.p]) > 0
  /\ io.pc \in {"write_buffer", "write_finished", "advance_read"} =>
       read_space(ps.buffers_rep[io.p]) > 0

\* a ring whose write index has wrapped around and that is full again
C16_Witness ==
  \E p \in Idx(ps.buffers_rep) :
    /\ Len(eng.put[p]) > RingSize
    /\ ps.buffers_rep[p].writeptr_rep = Len(eng.put[p]) % RingSize
    /\ write_space(ps.buffers_rep[p]) = 0

\* client p can be served: it is registered, its ring is not finished, and
\* the ring has free space (read client) or holds data (write client)
Ready(s, p) ==
  /\ ~s.clients_rep[p].null
  /\ s.buffers_rep[p].finished_rep = 0
  /\ IF s.buffers_rep[p].io_mode_rep = io_read
     THEN write_space(s.buffers_rep[p]) > 0
     ELSE read_space(s.buffers_rep[p]) > 0

ServedInOrder ==
  /\ \A i, j \in Idx(io.served) : i < j => io.served[i] < io.served[j]
  /\ \A i \in Idx(io.served) : io.served[i] <= io.p

\* C17: a pass visits the clients in registration order, from the first to
\* the last, and makes at most one call per client; a client that can be
\* served when the worker comes to it is served then, whatever the state of
\* the other clients and their rings.
C17_NoStarvation ==
  /\ []ServedInOrder
  /\ [][io' # io =>
          /\ (io.pc = "top" /\ io'.pc = "client") => io'.p = 1
          /\ (io.pc = "client" /\ io'.pc = "client") => io'.p = io.p + 1
          /\ (io.pc = "client" /\ io'.pc = "stop_request") =>
               io.p = Len(ps.clients_rep) + 1
          /\ (io.pc = "client" /\ io.p <= Len(ps.clients_rep) /\ Ready(ps, io.p)) =>
               (io'.p = io.p /\ io'.pc \in {"read_buffer", "write_buffer"})
          /\ io.pc \in {"advance_write", "advance_read"} =>
               (io'.pc = "client" /\ io'.p = io.p + 1)]_vars

\* the second client was served in a pass in which the first one, not
\* finished, could not be
C17_Witness ==
  /\ Len(ps.clients_rep) = 2
  /\ io.served = <<2>>
  /\ io.pc = "stop_request"
  /\ ~ps.clients_rep[1].null
  /\ ps.buffers_rep[1].finished_rep = 0
  /\ ~Ready(ps, 1)

(***************************************************************************)
(* SpecOwner: the control thread working on the audio objects behind the   *)
(* proxies while the server may be running.  enable() calls                *)
(* enable_audio_object_helper() on every front object, and a proxy's       *)
(* set_buffersize() is child_repp->set_buffersize(); unregister_client()   *)
(* clears the client's entry in clients_rep.  Neither waits for the        *)
(* worker, and stop() returns without waiting for it.                      *)
(***************************************************************************)
\* enable_audio_object_helper(aobj), aobj the proxy of client p: the call of
\* child_repp->set_buffersize() begins
ChildSetBuffersizeBegin ==
  /\ eng.pc = "idle"
  /\ \E p \in Idx(ps.clients_rep) :
       /\ ~ps.clients_rep[p].null
       /\ eng' = [eng EXCEPT !.pc = "child_call", !.p = p]
  /\ UNCHANGED <<ps, io, cs, last>>

\* the call of child_repp->set_buffersize() returns
ChildSetBuffersizeEnd ==
  /\ eng.pc = "child_call"
  /\ eng' = [eng EXCEPT !.pc = "idle"]
  /\ UNCHANGED <<ps, io, cs, last>>

\* unregister_client(aobject), aobject being client p
UnregisterClient ==
  /\ eng.pc = "idle"
  /\ \E p \in Idx(ps.clients_rep) :
       /\ ~ps.clients_rep[p].null
       /\ ps' = unregister_client(ps, p)
  /\ UNCHANGED <<io, eng, cs, last>>

NextOwner ==
  \/ NextRing
  \/ ChildSetBuffersizeBegin
  \/ ChildSetBuffersizeEnd
  \/ UnregisterClient

SpecOwner == InitServer /\ [][NextOwner]_vars

\* C18: no audio object is worked on by the worker thread and by the
\* control thread at once, and the worker works on registered clients only.
C18_OneThreadPerObject ==
  /\ ~(InClientCall /\ eng.pc = "child_call" /\ eng.p = io.p)
  /\ InClientCall => ~ps.clients_rep[io.p].null

(***************************************************************************)
(* SpecProxy: adding and removing files and realtime devices, overriding   *)
(* double buffering, enable() and disable() with every open() succeeding.  *)
(***************************************************************************)
NextProxy ==
  \/ AddDefaultChain
  \/ AddInput({FileA, FileB, DeviceD}, MaxInputs)
  \/ AddOutput({FileA, DeviceD}, MaxOutputs)
  \/ RemoveAudioInput
  \/ RemoveAudioOutput
  \/ ToggleDoubleBuffering
  \/ Enable(EnableEnvs({NoFailure}, {TRUE}))
  \/ Disable

SpecProxy == InitLife /\ [][NextProxy]_vars

ShouldBeProxied(o) == ~IsDevice(o) /\ ~IsLoop(o)

AllNonRealtimeProxied(s) ==
  /\ \A n \in Idx(s.inputs) : ShouldBeProxied(InputObj(s, n)) => s.inputs[n].wrap
  /\ \A n \in Idx(s.outputs) : ShouldBeProxied(OutputObj(s, n)) => s.outputs[n].wrap

NoneProxied(s) ==
  /\ \A n \in Idx(s.inputs) : ~s.inputs[n].wrap
  /\ \A n \in Idx(s.outputs) : ~s.outputs[n].wrap

\* C7: after every enable() that ran the transition and succeeded: if
\* double buffering is in effect and the chainsetup has both realtime and
\* non-realtime objects, every non-realtime, non-loop input and output is
\* fronted by a proxy wrapper; otherwise no input or output is.
C7_ProxyWrapping ==
  [][(cs.is_enabled_rep # TRUE /\ last'.op = "enable" /\ last'.err.kind = "none") =>
       IF double_buffering(cs') /\ has_realtime_objects(cs') /\
          has_nonrealtime_objects(cs')
       THEN AllNonRealtimeProxied(cs')
       ELSE NoneProxied(cs')]_vars

(***************************************************************************)
(* ECA_CHAINSETUP::seek_position().  It flushes the proxy server when      *)
(* double_buffering() is true, then seeks every input (through its proxy   *)
(* wrapper where there is one), every output and every chain to the        *)
(* chainsetup's position.  Positions are not part of the modelled state;   *)
(* the call is recorded in `last`, with whether the server was flushed.    *)
(* The method has no precondition.                                         *)
(***************************************************************************)
seek_position_flushes(s) == double_buffering(s) = TRUE

SeekPosition ==
  /\ cs' = cs
  /\ last' = [Called("seek") EXCEPT !.flushed = seek_position_flushes(cs)]
  /\ UNCHANGED psvars

NextSeek == NextProxy \/ SeekPosition

SpecSeek == InitLife /\ [][NextSeek]_vars

HasProxies(s) ==
  \/ \E n \in Idx(s.inputs) : s.inputs[n].wrap
  \/ \E n \in Idx(s.outputs) : s.outputs[n].wrap

\* C19: a seek of a chainsetup that holds proxy wrappers flushes the proxy
\* server before its objects are seeked.
C19_SeekFlushesProxies ==
  [][(last'.op = "seek" /\ HasProxies(cs)) => last'.flushed]_vars

(***************************************************************************)
(* SpecTopo: the calls that change which objects and chains there are and  *)
(* how they are connected, with enable() and disable().  The attach        *)
(* methods take a pointer to one of the chainsetup's objects, here its     *)
(* slot; they require only that the chainsetup is not locked, which it     *)
(* never is without an engine.                                             *)
(***************************************************************************)
AttachInputToSelectedChains ==
  /\ \E c \in Idx(cs.inputs) :
       /\ cs' = attach_input_to_selected_chains(cs, c)
       /\ last' = CalledWith("attach_input_to_selected_chains", c)
  /\ UNCHANGED psvars

AttachOutputToSelectedChains ==
  /\ \E c \in Idx(cs.outputs) :
       /\ cs' = attach_output_to_selected_chains(cs, c)
       /\ last' = CalledWith("attach_output_to_selected_chains", c)
  /\ UNCHANGED psvars

NextTopo ==
  \/ AddDefaultChain
  \/ AddInput({FileA, FileB}, MaxInputs)
  \/ AddOutput({FileA, DeviceD}, MaxOutputs)
  \/ RemoveAudioInput
  \/ RemoveAudioOutput
  \/ AttachInputToSelectedChains
  \/ AttachOutputToSelectedChains
  \/ Enable(EnableEnvs({NoFailure}, {TRUE}))
  \/ Disable

SpecTopo == InitLife /\ [][NextTopo]_vars

Topology(s) ==
  [inputs |-> [n \in Idx(s.inputs) |-> s.inputs_direct_rep[n].label],
   outputs |-> [n \in Idx(s.outputs) |-> s.outputs_direct_rep[n].label],
   chains |-> [q \in Idx(s.chains) |->
                 [name |-> s.chains[q].name, input |-> s.chains[q].input,
                  output |-> s.chains[q].output]]]

\* C20: a call made while the chainsetup is enabled, and that leaves it
\* enabled, leaves the inputs, the outputs, the chains and every chain's
\* connected input and output as they were.
C20_TopologyFrozenWhileEnabled ==
  [][(cs.is_enabled_rep = TRUE /\ cs'.is_enabled_rep = TRUE)
       => Topology(cs') = Topology(cs)]_vars

(***************************************************************************)
(* SpecBM: the buffering-mode selector over the topologies built from      *)
(* files and realtime devices, chains and chain operators, with or         *)
(* without rt-scheduling privileges, under every multitrack override.      *)
(***************************************************************************)
MaxRouted == 2
MaxChains == 2
MaxCops == 1

AddNewChain ==
  /\ cs.is_enabled_rep # TRUE
  /\ 0 < Len(cs.chains) /\ Len(cs.chains) < MaxChains
  /\ cs' = add_new_chains(cs, "c2")
  /\ last' = Called("other")
  /\ UNCHANGED psvars

AddChainOperator ==
  /\ Len(cs.chains) > 0
  /\ number_of_chain_operators(cs) < MaxCops
  /\ cs' = add_chain_operator(cs, 1)
  /\ last' = Called("other")
  /\ UNCHANGED psvars

SetMultitrackModeOverride ==
  /\ \E v \in BOOLEAN : cs' = set_multitrack_mode_override(cs, v)
  /\ last' = Called("other")
  /\ UNCHANGED psvars

SetBufferingMode ==
  /\ \E v \in Buffering_mode_t \ {cs_bmode_auto} : cs' = set_buffering_mode(cs, v)
  /\ last' = Called("other")
  /\ UNCHANGED psvars

SelectActiveBufferingMode ==
  /\ cs' = select_active_buffering_mode(cs)
  /\ last' = Called("select")
  /\ UNCHANGED psvars

InitBM ==
  /\ \E rtcaps \in BOOLEAN : cs = set_defaults(rtcaps)
  /\ last = Called("other")
  /\ InitServerUnused

NextBM ==
  \/ AddDefaultChain
  \/ AddNewChain
  \/ AddInput({FileA, DeviceD}, MaxRouted)
  \/ AddOutput({FileA, DeviceD}, MaxRouted)
  \/ AddChainOperator
  \/ SetMultitrackModeOverride
  \/ SetBufferingMode
  \/ SelectActiveBufferingMode

SpecBM == InitBM /\ [][NextBM]_vars

rti(s) == number_of_realtime_inputs(s)
rto(s) == number_of_realtime_outputs(s)
nrti(s) == number_of_non_realtime_inputs(s)
nrto(s) == number_of_non_realtime_outputs(s)

MultitrackTopology(s) ==
  rti(s) > 0 /\ rto(s) > 0 /\ nrti(s) > 0 /\ nrto(s) > 0 /\ Len(s.chains) > 1

\* the decision table
TableMode(s) ==
  IF rti(s) = 0 /\ rto(s) = 0 THEN cs_bmode_nonrt
  ELSE IF s.multitrack_mode_rep THEN cs_bmode_rt
  ELSE IF ~s.rtcaps_rep THEN cs_bmode_rt
  ELSE IF number_of_chain_operators(s) = 0 /\ (rti(s) = 0 \/ rto(s) = 0)
       THEN cs_bmode_rt
  ELSE cs_bmode_rtlowlatency

ModeTuple(s, mode) ==
  CASE mode = cs_bmode_rt -> s.bmode_rt_rep
    [] mode = cs_bmode_rtlowlatency -> s.bmode_rtlowlatency_rep
    [] OTHER -> s.bmode_nonrt_rep

SelectedInAutoMode == last.op = "select" /\ cs.buffering_mode_rep = cs_bmode_auto

\* C8: in auto mode select_active_buffering_mode() selects the mode of the
\* decision table (nonrt without realtime objects; else rt in multitrack
\* mode; else rt, with raised priority dropped, without rt-scheduling
\* privileges; else rt with no chain operators and rti = 0 or rto = 0; else
\* rtlowlatency) and the active parameters are that mode's tuple.
C8_DecisionTable ==
  SelectedInAutoMode =>
    /\ cs.active_buffering_mode_rep = TableMode(cs)
    /\ cs.bmode_active_rep = ModeTuple(cs, TableMode(cs))
    /\ (has_realtime_objects(cs) /\ ~cs.multitrack_mode_rep /\ ~cs.rtcaps_rep)
         => raised_priority(cs) = FALSE

C8_Witness ==
  /\ SelectedInAutoMode
  /\ cs.rtcaps_rep /\ ~cs.multitrack_mode_rep
  /\ rti(cs) > 0 /\ rto(cs) = 0 /\ number_of_chain_operators(cs) > 0
  /\ cs.active_buffering_mode_rep = cs_bmode_rtlowlatency
  /\ cs.bmode_active_rep = default_bmode_rtlowlatency_const

\* C9: after select_active_buffering_mode(), multitrack_mode equals (the
\* user's multitrack override is true) OR (rti > 0 AND rto > 0 AND nrti > 0
\* AND nrto > 0 AND chains > 1), and a repeated selection gives the same.
C9_MultitrackOr ==
  [][last'.op = "select" =>
       /\ cs'.multitrack_mode_rep =
            ((cs.multitrack_mode_override_rep /\ cs.multitrack_mode_rep)
             \/ MultitrackTopology(cs))
       /\ last.op = "select" => cs'.multitrack_mode_rep = cs.multitrack_mode_rep]_vars

\* C9, amended: after select_active_buffering_mode(), multitrack_mode is the
\* user's override value when an override is set (true or false), and
\* otherwise whether rti > 0, rto > 0, nrti > 0, nrto > 0 and chains > 1; a
\* repeated selection gives the same.
C9_MultitrackOverrideWins ==
  [][last'.op = "select" =>
       /\ cs'.multitrack_mode_rep =
            IF cs.multitrack_mode_override_rep
            THEN cs.multitrack_mode_rep
            ELSE MultitrackTopology(cs)
       /\ last.op = "select" => cs'.multitrack_mode_rep = cs.multitrack_mode_rep]_vars

C9_Witness ==
  /\ last.op = "select"
  /\ cs.multitrack_mode_override_rep /\ ~cs.multitrack_mode_rep
  /\ MultitrackTopology(cs)

(***************************************************************************)
(* SpecOV: the six override setters, the mode selection (in auto mode) and *)
(* enable() / disable() on small topologies.                               *)
(***************************************************************************)
MaxShadowed == 1

SetBuffersize ==
  /\ CanOverride("buffersize")
  /\ cs' = set_buffersize(cs, 512)
  /\ last' = Called("other")
  /\ UNCHANGED psvars

ToggleRaisedPriority ==
  /\ CanOverride("raised_priority")
  /\ \E v \in BOOLEAN : cs' = toggle_raised_priority(cs, v)
  /\ last' = Called("other")
  /\ UNCHANGED psvars

SetSchedPriority ==
  /\ CanOverride("sched_priority")
  /\ cs' = set_sched_priority(cs, 10)
  /\ last' = Called("other")
  /\ UNCHANGED psvars

SetDoubleBufferSize ==
  /\ CanOverride("double_buffer_size")
  /\ cs' = set_double_buffer_size(cs, 2048)
  /\ last' = Called("other")
  /\ UNCHANGED psvars

ToggleMaxBuffers ==
  /\ CanOverride("max_buffers")
  /\ \E v \in BOOLEAN : cs' = toggle_max_buffers(cs, v)
  /\ last' = Called("other")
  /\ UNCHANGED psvars

NextOV ==
  \/ AddDefaultChain
  \/ AddInput({FileA, DeviceD}, MaxShadowed)
  \/ AddOutput({FileA, DeviceD}, MaxShadowed)
  \/ SetBuffersize
  \/ ToggleRaisedPriority
  \/ SetSchedPriority
  \/ ToggleDoubleBuffering
  \/ SetDoubleBufferSize
  \/ ToggleMaxBuffers
  \/ SelectActiveBufferingMode
  \/ Enable(EnableEnvs({NoFailure}, {TRUE}))
  \/ Disable

SpecOV == InitBM /\ [][NextOV]_vars

Effective(s, f) ==
  CASE f = "buffersize" -> buffersize(s)
    [] f = "raised_priority" -> raised_priority(s)
    [] f = "sched_priority" -> get_sched_priority(s)
    [] f = "double_buffering" -> double_buffering(s)
    [] f = "double_buffer_size" -> double_buffer_size(s)
    [] f = "max_buffers" -> max_buffers(s)

ApplySetter(s, f, v) ==
  CASE f = "buffersize" -> set_buffersize(s, v)
    [] f = "raised_priority" -> toggle_raised_priority(s, v)
    [] f = "sched_priority" -> set_sched_priority(s, v)
    [] f = "double_buffering" -> toggle_double_buffering(s, v)
    [] f = "double_buffer_size" -> set_double_buffer_size(s, v)
    [] f = "max_buffers" -> toggle_max_buffers(s, v)

SetterValues(f) ==
  IF f \in {"raised_priority", "double_buffering", "max_buffers"}
  THEN BOOLEAN
  ELSE {10, 512, 2048}

ModeSelected(s) ==
  s.active_buffering_mode_rep \in {cs_bmode_nonrt, cs_bmode_rt, cs_bmode_rtlowlatency}

\* setting the override of f to v makes v the effective value of f and
\* changes the effective value of no other field
SettersAreFramed(s) ==
  \A f \in BufparamFields : \A v \in SetterValues(f) :
    /\ Effective(ApplySetter(s, f, v), f) = v
    /\ \A g \in BufparamFields \ {f} :
         Effective(ApplySetter(s, f, v), g) = Effective(s, g)

Alive == last.op # "destroyed"

AddLoopInput ==
  /\ Alive
  /\ Len(cs.chains) > 0
  /\ cs.is_enabled_rep # TRUE
  /\ Len(cs.inputs) < MaxInputs
  /\ cs' = [add_input(cs, LoopL) EXCEPT !.loop_map = @ \cup {LoopL.label}]
  /\ last' = Called("other")
  /\ UNCHANGED psvars

AddLoopOutput ==
  /\ Alive
  /\ Len(cs.chains) > 0
  /\ cs.is_enabled_rep # TRUE
  /\ Len(cs.outputs) < MaxOutputs
  /\ cs' = [add_output(cs, LoopL) EXCEPT !.loop_map = @ \cup {LoopL.label}]
  /\ last' = Called("other")
  /\ UNCHANGED psvars

\* the passes of the destructor over inputs_direct_rep and
\* outputs_direct_rep: every object but a loop device is deleted
RECURSIVE destructor_list_pass(_, _, _)
destructor_list_pass(s, objs, n) ==
  IF n > Len(objs) THEN s
  ELSE destructor_list_pass(IF ~IsLoop(objs[n]) THEN delete_object(s, objs[n]) ELSE s,
                            objs, n + 1)

\* the pass of the destructor over loop_map
destructor_loop_pass(s) ==
  [s EXCEPT !.loop_deletes =
     [l \in LoopLabels |-> IF l \in s.loop_map
                           THEN [@[l] EXCEPT !.map = @ + 1]
                           ELSE @[l]]]

destructor(s) ==
  destructor_loop_pass(
    destructor_list_pass(destructor_list_pass(s, s.inputs_direct_rep, 1),
                         s.outputs_direct_rep, 1))

Destructor ==
  /\ Alive
  /\ cs' = destructor(cs)
  /\ last' = Called("destroyed")
  /\ UNCHANGED psvars

NextLoop ==
  \/ Alive /\ AddDefaultChain
  \/ Alive /\ AddInput({FileA}, MaxInputs)
  \/ AddLoopInput
  \/ AddLoopOutput
  \/ Alive /\ RemoveAudioInput
  \/ Alive /\ RemoveAudioOutput
  \/ Alive /\ Enable(EnableEnvs({NoFailure}, {TRUE}))
  \/ Alive /\ Disable
  \/ Destructor

SpecLoop == InitLife /\ [][NextLoop]_vars

\* C21: no loop device is deleted through an input or output slot, none is
\* deleted twice, and the destructor has deleted every loop device of
\* loop_map once.
C21_LoopOwnedByMap ==
  \A l \in LoopLabels :
    /\ cs.loop_deletes[l].list = 0
    /\ cs.loop_deletes[l].map <= 1
    /\ (~Alive /\ l \in cs.loop_map) => cs.loop_deletes[l].map = 1

(***************************************************************************)
(* SpecEngine: the engine running a chainsetup of one file input of        *)
(* `length` frames and one null output, with periods of `buffersize`       *)
(* frames.  The engine's code is not in the sources at hand; this is the   *)
(* tick of the specification's section "Engine tick": a tick copies one    *)
(* period from the input (what is left of it, at its end), writes it to    *)
(* the output and advances the chainsetup position by buffersize frames;   *)
(* the engine terminates when the input reports finished.  Here `eng` is   *)
(* the engine: [pc, length, buffersize, in_position (frames read from the  *)
(* input), written (frames the output took), position (the chainsetup      *)
(* position), ticks].                                                      *)
(***************************************************************************)
MaxFrames == 12
MaxPeriod == 5

Min(a, b) == IF a < b THEN a ELSE b
CeilDiv(n, b) == (n + b - 1) \div b

NewEngine(n, b) ==
  [pc |-> "running", length |-> n, buffersize |-> b,
   in_position |-> 0, written |-> 0, position |-> 0, ticks |-> 0]

input_finished(e) == e.in_position = e.length

engine_tick(e) ==
  LET frames == Min(e.buffersize, e.length - e.in_position)
  IN [e EXCEPT !.in_position = @ + frames,
               !.written = @ + frames,
               !.position = @ + e.buffersize,
               !.ticks = @ + 1]

EngineTick ==
  /\ eng.pc = "running"
  /\ ~input_finished(eng)
  /\ eng' = engine_tick(eng)
  /\ UNCHANGED <<cs, last, ps, io>>

EngineTerminate ==
  /\ eng.pc = "running"
  /\ input_finished(eng)
  /\ eng' = [eng EXCEPT !.pc = "finished"]
  /\ UNCHANGED <<cs, last, ps, io>>

InitEngine ==
  /\ cs = set_defaults(TRUE)
  /\ last = Called("other")
  /\ ps = AUDIO_IO_PROXY_SERVER_new
  /\ io = NoThread
  /\ \E n \in 1..MaxFrames : \E b \in 1..MaxPeriod : eng = NewEngine(n, b)

NextEngine == EngineTick \/ EngineTerminate

SpecEngine == InitEngine /\ [][NextEngine]_vars

\* C22: when the engine has terminated it has made ceil(length/buffersize)
\* ticks and the chainsetup position is the length of the input.
C22_EngineProgress ==
  eng.pc = "finished" =>
    /\ eng.ticks = CeilDiv(eng.length, eng.buffersize)
    /\ eng.position = eng.length

(***************************************************************************)
(* SpecXrun: the engine ticking on one proxied file input while the worker *)
(* fills its ring, at any relative speed.  The proxy wrapper's             *)
(* read_buffer() is declared in audioio-buffered-proxy.h (with its counter *)
(* xruns_rep) but defined in a file that is not among the sources at       *)
(* hand; it is modelled from the specification: with data in the ring it   *)
(* takes the buffer at the read index and advances the index; with an      *)
(* empty ring whose producer has finished it reports the end of the        *)
(* stream; with an empty ring otherwise it delivers silence (0), counts    *)
(* an xrun and returns.  A tick is one such call.  The engine record       *)
(* carries, besides the fields of EngineIdle: xruns (xruns_rep), ticks,    *)
(* mark (the buffers the worker had produced at the last tick), stalled    *)
(* (the latest consecutive ticks before which the worker had produced      *)
(* nothing new), stall_xruns (the xruns counted in them) and dry (the      *)
(* latest consecutive ticks that found the ring empty and unfinished).     *)
(* The call that reports the end of the stream delivers no period and is   *)
(* not counted in stalled.                                                 *)
(***************************************************************************)
MaxTicks == 4

Silence == 0

proxy_read_buffer_without_count(b) ==
  IF read_space(b) > 0
  THEN [b |-> advance_read_pointer(b), got |-> TRUE,
        sbuf |-> Slot(b, b.readptr_rep), eos |-> FALSE, xrun |-> FALSE]
  ELSE IF b.finished_rep = 1
  THEN [b |-> b, got |-> FALSE, sbuf |-> Silence, eos |-> TRUE, xrun |-> FALSE]
  ELSE [b |-> b, got |-> TRUE, sbuf |-> Silence, eos |-> FALSE, xrun |-> FALSE]

proxy_read_buffer(b) ==
  IF read_space(b) > 0
  THEN [b |-> advance_read_pointer(b), got |-> TRUE,
        sbuf |-> Slot(b, b.readptr_rep), eos |-> FALSE, xrun |-> FALSE]
  ELSE IF b.finished_rep = 1
  THEN [b |-> b, got |-> FALSE, sbuf |-> Silence, eos |-> TRUE, xrun |-> FALSE]
  ELSE [b |-> b, got |-> TRUE, sbuf |-> Silence, eos |-> FALSE, xrun |-> TRUE]

Underrun(b) == read_space(b) = 0 /\ b.finished_rep = 0

EngReadTick ==
  /\ eng.pc = "idle"
  /\ eng.ticks < MaxTicks
  /\ \E p \in Idx(ps.buffers_rep) :
       LET b == ps.buffers_rep[p]
           r == proxy_read_buffer(b)
           x == IF r.xrun THEN 1 ELSE 0
           still == Len(eng.put[p]) = eng.mark
       IN /\ b.io_mode_rep = io_read
          /\ ~ps.clients_rep[p].null
          /\ ~eng.eos[p]
          /\ ps' = [ps EXCEPT !.buffers_rep[p] = r.b]
          /\ eng' = [eng EXCEPT
                       !.taken[p] = IF r.got THEN Append(@, r.sbuf) ELSE @,
                       !.eos[p] = r.eos,
                       !.xruns = @ + x,
                       !.ticks = @ + 1,
                       !.mark = Len(eng.put[p]),
                       !.stalled = IF ~r.got THEN @
                                   ELSE IF still THEN @ + 1 ELSE 0,
                       !.stall_xruns = IF ~r.got THEN @
                                       ELSE IF still THEN @ + x ELSE 0,
                       !.dry = IF Underrun(b) THEN @ + 1 ELSE 0]
  /\ UNCHANGED <<io, cs, last>>

InitXrun ==
  /\ cs = set_defaults(TRUE)
  /\ last = Called("other")
  /\ \E l \in 1..MaxItems :
       ps = RegisterAll(AUDIO_IO_PROXY_SERVER_set_buffer_defaults(
                          AUDIO_IO_PROXY_SERVER_new, RingSize),
                        <<NewClient(io_read, l)>>, 1)
  /\ eng = EngineIdle(1) @@ [xruns |-> 0, ticks |-> 0, mark |-> 0,
                             stalled |-> 0, stall_xruns |-> 0, dry |-> 0]
  /\ io = NoThread

NextXrun ==
  \/ Start
  \/ StartClearStop
  \/ StartSetRunning
  \/ Stop
  \/ IoTop
  \/ IoIdleSleep
  \/ IoNextClient
  \/ IoReadBuffer
  \/ IoReadFinished
  \/ IoAdvanceWrite
  \/ IoStopRequest
  \/ IoStopRunning
  \/ IoFull
  \/ EngReadTick

SpecXrun == InitXrun /\ [][NextXrun]_vars

\* the read client of SpecXrun
XrunBuffer == ps.buffers_rep[1]

End(s) == Len(s) + 1

\* std::find(first, last, value) on a string, `last` being s.end()
RECURSIVE find_char(_, _, _)
find_char(s, first, value) ==
  IF first >= End(s) THEN End(s)
  ELSE IF s[first] = value THEN first
  ELSE find_char(s, first + 1, value)

\* string::find(str, pos) for a two-character str; npos is 0
RECURSIVE find_pair(_, _, _, _)
find_pair(s, c1, c2, pos) ==
  IF pos + 1 > Len(s) THEN 0
  ELSE IF s[pos] = c1 /\ s[pos + 1] = c2 THEN pos
  ELSE find_pair(s, c1, c2, pos + 1)

\* the loop of kvu_priv_find_next_instance(); `ret` is what the last
\* find() returned (0 before the first one: the variable is uninitialized
\* until then, and the callers never call with start == arg.end())
RECURSIVE find_next_instance_loop(_, _, _, _)
find_next_instance_loop(arg, curpos, ret, value) ==
  IF curpos = End(arg) THEN ret
  ELSE LET r == find_char(arg, curpos, value)
       IN IF r # End(arg) /\ r # 1 /\ arg[r - 1] = "\\"
          THEN find_next_instance_loop(arg, r + 1, r, value)
          ELSE r

kvu_priv_find_next_instance(arg, start, value) ==
  find_next_instance_loop(arg, start, 0, value)

RECURSIVE kvu_priv_strip_escapes(_)
kvu_priv_strip_escapes(input) ==
  LET pos == find_pair(input, "\\", ",", 1)
  IN IF pos = 0 THEN input
     ELSE kvu_priv_strip_escapes(
            SubSeq(input, 1, pos - 1) \o <<",">> \o SubSeq(input, pos + 2, Len(input)))

\* the for loop of kvu_get_arguments(), entered with b # argu.end()
RECURSIVE get_arguments_loop(_, _, _)
get_arguments_loop(argu, b, resvec) ==
  IF b = End(argu) THEN resvec
  ELSE LET e == kvu_priv_find_next_instance(argu, b, ",")
           target == SubSeq(argu, b, e - 1)
           res2 == IF Len(target) > 0
                   THEN Append(resvec, kvu_priv_strip_escapes(target))
                   ELSE resvec
       IN IF e = End(argu) THEN res2
          ELSE get_arguments_loop(argu, e + 1, res2)

kvu_get_arguments(argu) ==
  LET colon == find_char(argu, 1, ":")
  IN IF colon = End(argu)
     THEN IF Len(argu) > 0 THEN get_arguments_loop(argu, 1, <<>>) ELSE <<>>
     ELSE get_arguments_loop(argu, colon + 1, <<>>)

(***************************************************************************)
(* SpecKvu: calls of the kvutils functions on every string, and list of    *)
(* strings, within the bounds.  `last` holds the call just made: its       *)
(* name, its argument and what it returned.  The functions keep no state,  *)
(* so a behaviour is one call.                                             *)
(***************************************************************************)
MaxArgLen == 5
MaxListLen == 2
MaxTokenLen == 2

StringsOver(chars, maxlen) == UNION {[1..n -> chars] : n \in 0..maxlen}
ListsOver(strings, maxlen) == UNION {[1..n -> strings] : n \in 0..maxlen}

ArgChars == {"a", ",", "\\", ":"}

KvuCall(op, arg, ret) == [op |-> op, arg |-> arg, ret |-> ret]

\* no call has been made yet
NoCall == last.op = "other"

GetArguments ==
  /\ NoCall
  /\ \E argu \in StringsOver(ArgChars, MaxArgLen) :
       last' = KvuCall("kvu_get_arguments", argu, kvu_get_arguments(argu))
  /\ UNCHANGED <<cs, ps, io, eng>>

InitKvu ==
  /\ cs = set_defaults(TRUE)
  /\ last = Called("other")
  /\ ps = AUDIO_IO_PROXY_SERVER_new
  /\ io = NoThread
  /\ eng = EngineIdle(0)

\* the arguments of a formatted string as the claim gives them: the text
\* after the first ':' (the whole text when there is none) is cut at every
\* ',' that is not part of a '\,'; each '\,' stands for a ','; empty
\* pieces are dropped
RECURSIVE SplitAtUnescaped(_, _, _, _)
SplitAtUnescaped(t, i, cur, out) ==
  IF i > Len(t)
  THEN IF cur # <<>> THEN Append(out, cur) ELSE out
  ELSE IF t[i] = "\\" /\ i < Len(t) /\ t[i + 1] = ","
  THEN SplitAtUnescaped(t, i + 2, Append(cur, ","), out)
  ELSE IF t[i] = ","
  THEN SplitAtUnescaped(t, i + 1, <<>>, IF cur # <<>> THEN Append(out, cur) ELSE out)
  ELSE SplitAtUnescaped(t, i + 1, Append(cur, t[i]), out)

AfterPrefix(s) ==
  LET colon == find_char(s, 1, ":")
  IN IF colon = End(s) THEN s ELSE SubSeq(s, colon + 1, Len(s))

ArgumentsOf(s) == SplitAtUnescaped(AfterPrefix(s), 1, <<>>, <<>>)

\* C24: kvu_get_arguments() returns the pieces between the unescaped
\* commas of the text after the prefix separator, each '\,' replaced by a
\* comma, empty pieces left out.
C24_GetArguments ==
  last.op = "kvu_get_arguments" => last.ret = ArgumentsOf(last.arg)

\* kvu_vector_to_string(str, separator): the items joined, the separator
\* string between them
RECURSIVE vector_to_string_loop(_, _, _, _)
vector_to_string_loop(str, separator, p, stmp) ==
  IF p > Len(str) THEN stmp
  ELSE vector_to_string_loop(str, separator, p + 1,
         IF p + 1 <= Len(str) THEN stmp \o str[p] \o separator
         ELSE stmp \o str[p])

kvu_vector_to_string(str, separator) ==
  vector_to_string_loop(str, separator, 1, <<>>)

\* what a caller does to pass a comma inside an argument: every ',' of the
\* argument is written '\,'
RECURSIVE EscapeCommas(_)
EscapeCommas(a) ==
  IF a = <<>> THEN <<>>
  ELSE (IF Head(a) = "," THEN <<"\\", ",">> ELSE <<Head(a)>>) \o EscapeCommas(Tail(a))

TokenChars == {"a", ",", "\\"}

HasComma(a) == \E i \in Idx(a) : a[i] = ","

ArgsWithCommas == {a \in StringsOver(TokenChars, MaxTokenLen) : HasComma(a)}

EscapeRoundTrip ==
  /\ NoCall
  /\ \E L \in ListsOver(ArgsWithCommas, MaxListLen) :
       LET escaped == [n \in Idx(L) |-> EscapeCommas(L[n])]
           argu == <<"x", ":">> \o kvu_vector_to_string(escaped, <<",">>)
       IN last' = KvuCall("escape_round_trip", L, kvu_get_arguments(argu))
  /\ UNCHANGED <<cs, ps, io, eng>>

\* C25: arguments that contain commas, written with every comma escaped
\* and joined with commas after a prefix, are returned unchanged by
\* kvu_get_arguments().
C25_EscapeRoundTrip ==
  last.op = "escape_round_trip" => last.ret = last.arg

isspace(c) == c \in {" ", "\t", "\n"}

\* the loop of kvu_string_to_tokens(): [vec, stmp] after the characters
\* from p on
RECURSIVE string_to_tokens_loop(_, _, _, _)
string_to_tokens_loop(s, p, vec, stmp) ==
  IF p > Len(s) THEN [vec |-> vec, stmp |-> stmp]
  ELSE IF ~isspace(s[p])
  THEN string_to_tokens_loop(s, p + 1, vec, Append(stmp, s[p]))
  ELSE IF stmp = <<>>
  THEN string_to_tokens_loop(s, p + 1, vec, stmp)
  ELSE string_to_tokens_loop(s, p + 1, Append(vec, stmp), <<>>)

kvu_string_to_tokens(s) ==
  LET r == string_to_tokens_loop(s, 1, <<>>, <<>>)
  IN IF Len(r.stmp) > 0 THEN Append(r.vec, r.stmp) ELSE r.vec

\* the loop of kvu_string_to_vector()
RECURSIVE string_to_vector_loop(_, _, _, _, _)
string_to_vector_loop(str, separator, p, vec, stmp) ==
  IF p > Len(str) THEN [vec |-> vec, stmp |-> stmp]
  ELSE IF str[p] # separator
  THEN string_to_vector_loop(str, separator, p + 1, vec, Append(stmp, str[p]))
  ELSE IF stmp = <<>>
  THEN string_to_vector_loop(str, separator, p + 1, vec, stmp)
  ELSE string_to_vector_loop(str, separator, p + 1, Append(vec, stmp), <<>>)

kvu_string_to_vector_without_last(str, separator) ==
  string_to_vector_loop(str, separator, 1, <<>>, <<>>).vec

kvu_string_to_vector(str, separator) ==
  LET r == string_to_vector_loop(str, separator, 1, <<>>, <<>>)
  IN IF Len(r.stmp) > 0 THEN Append(r.vec, r.stmp) ELSE r.vec

ListChars == {"a", ",", " ", "\\"}

SplitJoin ==
  /\ NoCall
  /\ \E L \in ListsOver(StringsOver(ListChars, MaxTokenLen), MaxListLen) :
       last' = KvuCall("split_join", L,
                 [vector |-> kvu_string_to_vector(
                               kvu_vector_to_string(L, <<",">>), ","),
                  tokens |-> kvu_string_to_tokens(
                               kvu_vector_to_string(L, <<" ">>))])
  /\ UNCHANGED <<cs, ps, io, eng>>

\* every `sep` in the token is escaped (preceded by a backslash)
NoUnescaped(tok, sep) ==
  \A i \in Idx(tok) : tok[i] = sep => (i > 1 /\ tok[i - 1] = "\\")

\* the token is not empty and holds no `sep` at all
Plain(tok, sep) == tok # <<>> /\ \A i \in Idx(tok) : tok[i] # sep

\* C26 as stated: a list of (non-empty) tokens with no unescaped
\* separator, joined with the separator and split again, is returned
\* unchanged.
C26_SplitJoinRoundTrip ==
  last.op = "split_join" =>
    /\ (\A n \in Idx(last.arg) :
          last.arg[n] # <<>> /\ NoUnescaped(last.arg[n], ","))
          => last.ret.vector = last.arg
    /\ (\A n \in Idx(last.arg) :
          last.arg[n] # <<>> /\ NoUnescaped(last.arg[n], " "))
          => last.ret.tokens = last.arg

\* C26, amended: a list of non-empty tokens that hold no separator
\* character, escaped or not, joined with the separator and split again,
\* is returned unchanged.
C26_SplitJoinPlainTokens ==
  last.op = "split_join" =>
    /\ (\A n \in Idx(last.arg) : Plain(last.arg[n], ","))
          => last.ret.vector = last.arg
    /\ (\A n \in Idx(last.arg) : Plain(last.arg[n], " "))
          => last.ret.tokens = last.arg

\* two plain tokens, one of them with a backslash, came back from both
\* round trips
C26_Witness ==
  /\ last.op = "split_join"
  /\ Len(last.arg) = 2
  /\ \A n \in Idx(last.arg) : Plain(last.arg[n], ",") /\ Plain(last.arg[n], " ")
  /\ \E i \in Idx(last.arg[1]) : last.arg[1][i] = "\\"
  /\ last.ret.vector = last.arg
  /\ last.ret.tokens = last.arg

\* the loop of kvu_string_to_tokens_quoted().  At a backslash the code
\* steps to the next character and appends it without testing for the end
\* of the string: when the backslash is the last character it reads *p at
\* s.end() and the loop's p++ then moves past s.end(), so the scan goes on
\* outside the string (past_end).
RECURSIVE tokens_quoted_loop(_, _, _, _, _)
tokens_quoted_loop(s, p, vec, stmp, quoteflag) ==
  IF p > Len(s) THEN [vec |-> vec, stmp |-> stmp, past_end |-> FALSE]
  ELSE IF s[p] = "\""
  THEN tokens_quoted_loop(s, p + 1, vec, stmp, ~quoteflag)
  ELSE IF s[p] = "\\"
  THEN IF p + 1 > Len(s)
       THEN [vec |-> vec, stmp |-> stmp, past_end |-> TRUE]
       ELSE tokens_quoted_loop(s, p + 2, vec, Append(stmp, s[p + 1]), quoteflag)
  ELSE IF ~isspace(s[p]) \/ quoteflag
  THEN tokens_quoted_loop(s, p + 1, vec, Append(stmp, s[p]), quoteflag)
  ELSE IF stmp = <<>>
  THEN tokens_quoted_loop(s, p + 1, vec, stmp, quoteflag)
  ELSE tokens_quoted_loop(s, p + 1, Append(vec, stmp), <<>>, quoteflag)

\* what a call of kvu_string_to_tokens_quoted(s) can return.  Once the
\* scan is outside the string the behaviour is undefined: the call may
\* not return (crashed), or return with whatever it found in memory
\* ("?") at the end of the last token.
kvu_string_to_tokens_quoted(s) ==
  LET r == tokens_quoted_loop(s, 1, <<>>, <<>>, FALSE)
  IN IF r.past_end
     THEN {[past_end |-> TRUE, crashed |-> TRUE, vec |-> <<>>],
           [past_end |-> TRUE, crashed |-> FALSE,
            vec |-> Append(r.vec, Append(r.stmp, "?"))]}
     ELSE {[past_end |-> FALSE, crashed |-> FALSE,
            vec |-> IF Len(r.stmp) > 0 THEN Append(r.vec, r.stmp) ELSE r.vec]}

MaxQuotedLen == 5

QuotedChars == {"a", " ", "\"", "\\"}

\* a "b c" d\ e
QuotedExample ==
  <<"a", " ", "\"", "b", " ", "c", "\"", " ", "d", "\\", " ", "e">>

StringToTokensQuoted ==
  /\ NoCall
  /\ \E s \in StringsOver(QuotedChars, MaxQuotedLen) \cup {QuotedExample} :
       \E ret \in kvu_string_to_tokens_quoted(s) :
         last' = KvuCall("kvu_string_to_tokens_quoted", s, ret)
  /\ UNCHANGED <<cs, ps, io, eng>>

NextKvu ==
  \/ GetArguments
  \/ EscapeRoundTrip
  \/ SplitJoin
  \/ StringToTokensQuoted

SpecKvu == InitKvu /\ [][NextKvu]_vars

\* C27: kvu_string_to_tokens_quoted() never reads past the end of its
\* input, returns no empty token, and returns the tokens a, "b c" and
\* "d e" for the input  a "b c" d\ e.
C27_TokensQuoted ==
  last.op = "kvu_string_to_tokens_quoted" =>
    /\ ~last.ret.past_end
    /\ \A n \in Idx(last.ret.vec) : last.ret.vec[n] # <<>>
    /\ last.arg = QuotedExample =>
         last.ret.vec = <<<<"a">>, <<"b", " ", "c">>, <<"d", " ", "e">>>>

(***************************************************************************)
(* SpecAgain: adding objects, enable() with open() failures, disable(),    *)
(* and the user's override of double buffering, which a call of enable()   *)
(* that selects and applies the buffering mode would act upon.             *)
(***************************************************************************)
NextAgain ==
  \/ AddDefaultChain
  \/ AddInput({FileA, DeviceD}, MaxInputs)
  \/ AddOutput({FileA}, MaxOutputs)
  \/ ToggleDoubleBuffering
  \/ Enable(EnableEnvs(OpenFailures(cs), {TRUE}))
  \/ Disable

SpecAgain == InitLife /\ [][NextAgain]_vars

\* C28: enable() on an enabled chainsetup returns normally and changes
\* nothing, disable() on a chainsetup that is not enabled changes nothing;
\* a successful enable() leaves the chainsetup enabled and a disable()
\* leaves it not enabled, so that a second call in a row finds it so.
C28_Idempotent ==
  /\ []((last.op = "enable" /\ last.err.kind = "none") => cs.is_enabled_rep = TRUE)
  /\ [](last.op = "disable" => cs.is_enabled_rep # TRUE)
  /\ []((last.op = "enable" /\ last.was_enabled) => last.err.kind = "none")
  /\ [][(last'.op = "enable" /\ last'.was_enabled) => cs' = cs]_vars
  /\ [][(last'.op = "disable" /\ ~last'.was_enabled) => cs' = cs]_vars

\* enable() has been called on an enabled chainsetup with an open input
C28_Witness ==
  /\ last.op = "enable"
  /\ last.was_enabled
  /\ cs.is_enabled_rep = TRUE
  /\ \E n \in Idx(cs.inputs) : InputObj(cs, n).open

(***************************************************************************)
(* SpecOrder: the calls of SpecLife with disable() taken one close() at a  *)
(* time.  While disable() runs, `last` is its position: op = "disabling",  *)
(* side the loop it is in ("in", "out", "midi") and idx the slot it is     *)
(* at.  No other call is made during a disable().                          *)
(***************************************************************************)
NotDisabling == last.op # "disabling"

DisableAt(side, idx) ==
  [op |-> "disabling", err |-> NoError, open_failed |-> FALSE,
   flushed |-> FALSE, was_enabled |-> TRUE, side |-> side, idx |-> idx]

\* `if ((*q)->is_open() == true) (*q)->close();` on the front object of
\* slot n: a proxy passes close() on to its child
close_object(objs, fronts, n) ==
  [objs EXCEPT ![fronts[n].child].open = FALSE]

\* disable() of a chainsetup that is not enabled: nothing is done
DisableNotEnabled ==
  /\ NotDisabling
  /\ cs.is_enabled_rep # TRUE
  /\ cs' = cs
  /\ last' = Called("disable")
  /\ UNCHANGED psvars

DisableBegin ==
  /\ NotDisabling
  /\ cs.is_enabled_rep = TRUE
  /\ cs' = cs
  /\ last' = DisableAt("in", 1)
  /\ UNCHANGED psvars

DisableCloseInput ==
  /\ last.op = "disabling" /\ last.side = "in"
  /\ IF last.idx <= Len(cs.inputs)
     THEN /\ cs' = [cs EXCEPT !.inputs_direct_rep =
                                 close_object(@, cs.inputs, last.idx)]
          /\ last' = DisableAt("in", last.idx + 1)
     ELSE /\ cs' = cs
          /\ last' = DisableAt("out", 1)
  /\ UNCHANGED psvars

\* the loop over the outputs; after it the MIDI server is disabled
DisableCloseOutput ==
  /\ last.op = "disabling" /\ last.side = "out"
  /\ IF last.idx <= Len(cs.outputs)
     THEN /\ cs' = [cs EXCEPT !.outputs_direct_rep =
                                 close_object(@, cs.outputs, last.idx)]
          /\ last' = DisableAt("out", last.idx + 1)
     ELSE /\ cs' = [cs EXCEPT !.midi_server_enabled = FALSE]
          /\ last' = DisableAt("midi", 1)
  /\ UNCHANGED psvars

\* the loop over the MIDI devices; after it is_enabled_rep is cleared
DisableCloseMidi ==
  /\ last.op = "disabling" /\ last.side = "midi"
  /\ IF last.idx <= Len(cs.midi_devices)
     THEN /\ cs' = [cs EXCEPT !.midi_devices[last.idx].open = FALSE]
          /\ last' = DisableAt("midi", last.idx + 1)
     ELSE /\ cs' = [cs EXCEPT !.is_enabled_rep = FALSE]
          /\ last' = [Called("disable") EXCEPT !.was_enabled = TRUE]
  /\ UNCHANGED psvars

NextOrder ==
  \/ NotDisabling /\ AddDefaultChain
  \/ NotDisabling /\ AddInput({FileA, FileB}, MaxInputs)
  \/ NotDisabling /\ AddOutput({FileA, FileB}, MaxOutputs)
  \/ NotDisabling /\ AddMidiDevice
  \/ NotDisabling /\ Enable(EnableEnvs(OpenFailures(cs), {TRUE}))
  \/ DisableNotEnabled
  \/ DisableBegin
  \/ DisableCloseInput
  \/ DisableCloseOutput
  \/ DisableCloseMidi

SpecOrder == InitLife /\ [][NextOrder]_vars

OpenFlags(objs) == [n \in Idx(objs) |-> objs[n].open]
AllClosed(objs) == \A n \in Idx(objs) : ~objs[n].open
AllOpen(objs) == \A n \in Idx(objs) : objs[n].open

\* an enable() that did its work (the chainsetup was not enabled) threw
FailedEnable == last.op = "enable" /\ ~last.was_enabled /\ last.err.kind # "none"

\* that enable() threw with an input not open, or with all inputs open
\* and an input's rate differing from the first input's
FailedAtInputs ==
  /\ FailedEnable
  /\ \/ ~AllOpen(cs.inputs_direct_rep)
     \/ /\ last.err.kind = "samplerate"
        /\ \E n \in Idx(cs.inputs) : InputObj(cs, n).srate # InputObj(cs, 1).srate

\* C29: an enable() that fails at its inputs (an open that fails, or
\* rates that differ) has selected the buffering mode, has opened no
\* input after an input it left closed, and has opened no output; disable() closes an output only when every input is closed and
\* a MIDI device only when every output is closed, and ends having done
\* what disable() does.
C29_OrderOfEnableAndDisable ==
  /\ [][FailedAtInputs' =>
          /\ OpenFlags(cs'.outputs_direct_rep) = OpenFlags(cs.outputs_direct_rep)
          /\ cs'.active_buffering_mode_rep =
               select_active_buffering_mode(cs).active_buffering_mode_rep
          /\ \A n \in Idx(cs'.inputs) :
               ~InputObj(cs', n).open =>
                 \A k \in (n + 1)..Len(cs'.inputs) :
                   InputObj(cs', k).open = InputObj(cs, k).open]_vars
  /\ []((last.op = "disabling" /\ last.side \in {"out", "midi"})
          => AllClosed(cs.inputs_direct_rep))
  /\ []((last.op = "disabling" /\ last.side = "midi")
          => AllClosed(cs.outputs_direct_rep))
  /\ [][(last.op = "disabling" /\ last'.op = "disable") => cs' = disable(cs)]_vars

\* disable() has closed the inputs and is closing an output that is open
C29_Witness ==
  /\ last.op = "disabling" /\ last.side = "out"
  /\ Len(cs.inputs) > 0
  /\ last.idx <= Len(cs.outputs)
  /\ OutputObj(cs, last.idx).open

(***************************************************************************)
(* The postconditions of the proxy/direct switch.  Each operator is TRUE   *)
(* when every DBC_ENSURE the call reaches finds its condition true.        *)
(***************************************************************************)
\* DBC_ENSURE(proxy_clients_rep == 0) at the end of switch_to_direct_mode()
switch_to_direct_mode_ensures(s) ==
  switch_to_direct_mode(s).proxy_clients_rep = 0

\* DBC_ENSURE(proxy_clients_rep > 0) at the end of the helper's call for
\* the inputs and at the end of its call for the outputs
switch_to_proxy_mode_ensures(s) ==
  LET i == switch_to_proxy_mode_helper(s.inputs, s.inputs_direct_rep,
                                       s.proxy_clients_rep, 1)
      o == switch_to_proxy_mode_helper(s.outputs, s.outputs_direct_rep,
                                       i.clients, 1)
  IN i.clients > 0 /\ o.clients > 0

\* the switch that enable_active_buffering_mode() makes of s, if any
active_buffering_mode_switch(s) ==
  IF double_buffering(s) = TRUE
  THEN IF has_realtime_objects(s) # TRUE THEN "direct"
       ELSE IF has_nonrealtime_objects(s) # TRUE THEN "direct"
       ELSE IF s.proxy_clients_rep = 0 THEN "proxy"
       ELSE "none"
  ELSE IF s.proxy_clients_rep > 0 THEN "direct" ELSE "none"

enable_active_buffering_mode_ensures(s) ==
  CASE active_buffering_mode_switch(s) = "direct" -> switch_to_direct_mode_ensures(s)
    [] active_buffering_mode_switch(s) = "proxy" -> switch_to_proxy_mode_ensures(s)
    [] OTHER -> TRUE

\* the chainsetup as enable() hands it to enable_active_buffering_mode()
EnableSwitches(s) == select_active_buffering_mode(s)

\* C30 (direct half): whenever enable() runs switch_to_direct_mode(),
\* proxy_clients_rep is 0 at its end.
C30_DirectPostcondition ==
  [][(last'.op = "enable" /\ ~last'.was_enabled /\
      active_buffering_mode_switch(EnableSwitches(cs)) = "direct")
       => switch_to_direct_mode_ensures(EnableSwitches(cs))]_vars

\* C30: whenever enable() runs the proxy/direct switch, each postcondition
\* the switch asserts holds: proxy_clients_rep = 0 after
\* switch_to_direct_mode(), and proxy_clients_rep > 0 at the end of the
\* switch_to_proxy_mode_helper() call for the inputs and of the one for
\* the outputs.
C30_SwitchPostconditions ==
  [][(last'.op = "enable" /\ ~last'.was_enabled)
       => enable_active_buffering_mode_ensures(EnableSwitches(cs))]_vars

(***************************************************************************)
(* SpecChains: adding, renaming, selecting and removing chains.            *)
(* remove_chains() is recorded in `last` with the two sizes its            *)
(* postcondition declares: old_chains_size and sel_chains_size.            *)
(***************************************************************************)
ChainNames == {"default", "c2", "c3"}
MaxNamedChains == 3

\* the chains without the first one named a (erase and break)
RECURSIVE erase_first_named(_, _)
erase_first_named(chains, a) ==
  IF Len(chains) = 0 THEN chains
  ELSE IF Head(chains).name = a THEN Tail(chains)
  ELSE <<Head(chains)>> \o erase_first_named(Tail(chains), a)

RECURSIVE remove_chains_loop(_, _, _)
remove_chains_loop(chains, sel, a) ==
  IF a > Len(sel) THEN chains
  ELSE remove_chains_loop(erase_first_named(chains, sel[a]), sel, a + 1)

remove_chains(s) ==
  [s EXCEPT !.chains = remove_chains_loop(s.chains, s.selected_chainids, 1),
            !.selected_chainids = <<>>]

\* the chain rename_chain() renames: the first chain, in the order of
\* the selection, whose name is selected; 0 when there is none
RECURSIVE rename_chain_target(_, _)
rename_chain_target(s, a) ==
  IF a > Len(s.selected_chainids) THEN 0
  ELSE IF \E q \in Idx(s.chains) : s.chains[q].name = s.selected_chainids[a]
       THEN CHOOSE q \in Idx(s.chains) :
              /\ s.chains[q].name = s.selected_chainids[a]
              /\ \A r \in 1..(q - 1) : s.chains[r].name # s.selected_chainids[a]
       ELSE rename_chain_target(s, a + 1)

rename_chain(s, name) ==
  IF rename_chain_target(s, 1) = 0 THEN s
  ELSE [s EXCEPT !.chains[rename_chain_target(s, 1)].name = name]

select_all_chains(s) ==
  [s EXCEPT !.selected_chainids = [p \in Idx(s.chains) |-> s.chains[p].name]]

AddNamedChain ==
  /\ cs.is_enabled_rep # TRUE
  /\ Len(cs.chains) < MaxNamedChains
  /\ \E name \in ChainNames : cs' = add_new_chains(cs, name)
  /\ last' = Called("other")
  /\ UNCHANGED psvars

RenameChain ==
  /\ \E name \in ChainNames : cs' = rename_chain(cs, name)
  /\ last' = Called("other")
  /\ UNCHANGED psvars

SelectAllChains ==
  /\ cs' = select_all_chains(cs)
  /\ last' = Called("other")
  /\ UNCHANGED psvars

RemoveChains ==
  /\ cs.is_enabled_rep # TRUE
  /\ cs' = remove_chains(cs)
  /\ last' = Called("remove_chains") @@
               [old_chains_size |-> Len(cs.chains),
                sel_chains_size |-> Len(cs.selected_chainids)]
  /\ UNCHANGED psvars

NextChains ==
  \/ AddDefaultChain
  \/ AddNamedChain
  \/ RenameChain
  \/ SelectAllChains
  \/ RemoveChains

SpecChains == InitLife /\ [][NextChains]_vars

\* C31: after remove_chains() the number of chains is the old number
\* minus the number of selected chain ids, and the selection is empty.
C31_RemoveChainsRemovesSelected ==
  last.op = "remove_chains" =>
    /\ Len(cs.chains) = last.old_chains_size - last.sel_chains_size
    /\ cs.selected_chainids = <<>>

(***************************************************************************)
(* The front lists and the direct lists                                    *)
(***************************************************************************)
\* the front entries of a list are as many as the direct objects, and
\* the entry at n is the direct object at n or a wrapper of it
Parallel(fronts, directobjs) ==
  /\ Len(fronts) = Len(directobjs)
  /\ \A n \in Idx(fronts) : fronts[n].child = n

\* C32: inputs and inputs_direct_rep have the same size, outputs and
\* outputs_direct_rep likewise, and the front entry at every index n is
\* the direct object at n or a proxy wrapper whose child is that object.
C32_ListsParallel ==
  /\ Parallel(cs.inputs, cs.inputs_direct_rep)
  /\ Parallel(cs.outputs, cs.outputs_direct_rep)

\* an enabled chainsetup in proxy mode: two inputs, the second behind a
\* wrapper, and an output that is its own front object
C32_Witness ==
  /\ cs.is_enabled_rep = TRUE
  /\ Len(cs.inputs) = 2
  /\ cs.inputs[2].wrap
  /\ \E n \in Idx(cs.outputs) : ~cs.outputs[n].wrap

NumberOfWrappers(fronts) == Cardinality({n \in Idx(fronts) : fronts[n].wrap})

\* C33: proxy_clients_rep is the number of proxy wrappers in the inputs
\* and outputs lists, and is never negative.
C33_ProxyClientsCounted ==
  /\ cs.proxy_clients_rep = NumberOfWrappers(cs.inputs) + NumberOfWrappers(cs.outputs)
  /\ cs.proxy_clients_rep >= 0

\* enable() has switched a chainsetup with wrappers to direct mode
C33_Witness ==
  /\ last.op = "enable" /\ last.err.kind = "none"
  /\ cs.proxy_clients_rep = 0
  /\ \E n \in Idx(cs.inputs) : ShouldBeProxied(InputObj(cs, n))
  /\ \E n \in Idx(cs.inputs) : cs.inputs_direct_rep[n].label = "null"

(***************************************************************************)
(* SpecConnect: chains that are added, renamed and selected, objects that  *)
(* are added, removed and attached to the selected chains.  No enable():   *)
(* every call here is made on a chainsetup that is not enabled.            *)
(***************************************************************************)
MaxConnected == 2

AddSecondChain ==
  /\ cs.is_enabled_rep # TRUE
  /\ 0 < Len(cs.chains) /\ Len(cs.chains) < MaxConnected
  /\ cs' = add_new_chains(cs, "c2")
  /\ last' = Called("other")
  /\ UNCHANGED psvars

RenameToThird ==
  /\ cs' = rename_chain(cs, "c3")
  /\ last' = Called("other")
  /\ UNCHANGED psvars

NextConnect ==
  \/ AddDefaultChain
  \/ AddSecondChain
  \/ RenameToThird
  \/ SelectAllChains
  \/ AddInput({FileA, FileB}, MaxInputs)
  \/ AddOutput({FileA}, MaxOutputs)
  \/ RemoveAudioInput
  \/ RemoveAudioOutput
  \/ AttachInputToSelectedChains
  \/ AttachOutputToSelectedChains

SpecConnect == InitLife /\ [][NextConnect]_vars

\* the slots of a direct list whose object has the label
Matching(directobjs, label) == {n \in Idx(directobjs) : directobjs[n].label = label}

\* a removal of `label` from one side: the lists before and after, and
\* the chains' connections to that side and to the other side
RemovalFrame(fronts, directobjs, fronts2, directobjs2, label) ==
  /\ Len(fronts2) = Len(fronts)
  /\ Len(directobjs2) = Len(directobjs)
  /\ \A n \in Idx(directobjs) :
       IF n \in Matching(directobjs, label)
       THEN directobjs2[n] = NULLFILE /\ fronts2[n] = Direct(n)
       ELSE directobjs2[n] = directobjs[n] /\ fronts2[n] = fronts[n]

Connections(s, side) ==
  [q \in Idx(s.chains) |-> IF side = "in" THEN s.chains[q].input ELSE s.chains[q].output]

ChainNamesOf(s) == [q \in Idx(s.chains) |-> s.chains[q].name]

\* the connections to `side` after the slots in `gone` were disconnected
Disconnected(s, side, gone) ==
  [q \in Idx(s.chains) |->
     IF Connections(s, side)[q] \in gone THEN -1 ELSE Connections(s, side)[q]]

\* C34: remove_audio_input(label) puts a null object in every slot whose
\* label matches, disconnects the input of exactly the chains connected
\* to such a slot, and changes no other slot, no output, no chain's name
\* and no chain's output connection; remove_audio_output likewise.
C34_RemoveFrame ==
  /\ [][last'.op = "remove_audio_input" =>
          /\ RemovalFrame(cs.inputs, cs.inputs_direct_rep,
                          cs'.inputs, cs'.inputs_direct_rep, last'.arg)
          /\ Connections(cs', "in") =
               Disconnected(cs, "in", Matching(cs.inputs_direct_rep, last'.arg))
          /\ Connections(cs', "out") = Connections(cs, "out")
          /\ ChainNamesOf(cs') = ChainNamesOf(cs)
          /\ cs'.outputs = cs.outputs
          /\ cs'.outputs_direct_rep = cs.outputs_direct_rep]_vars
  /\ [][last'.op = "remove_audio_output" =>
          /\ RemovalFrame(cs.outputs, cs.outputs_direct_rep,
                          cs'.outputs, cs'.outputs_direct_rep, last'.arg)
          /\ Connections(cs', "out") =
               Disconnected(cs, "out", Matching(cs.outputs_direct_rep, last'.arg))
          /\ Connections(cs', "in") = Connections(cs, "in")
          /\ ChainNamesOf(cs') = ChainNamesOf(cs)
          /\ cs'.inputs = cs.inputs
          /\ cs'.inputs_direct_rep = cs.inputs_direct_rep]_vars

\* an input was removed from a chainsetup of two chains: one chain lost
\* its input, the other is still connected to the other input
C34_Witness ==
  /\ last.op = "remove_audio_input"
  /\ Len(cs.chains) = 2
  /\ \E q \in Idx(cs.chains) :
       /\ cs.chains[q].input > 0
       /\ cs.inputs_direct_rep[cs.chains[q].input].label # "null"
  /\ \E q \in Idx(cs.chains) : cs.chains[q].input = -1
  /\ \E n \in Idx(cs.inputs) : cs.inputs_direct_rep[n].label = "null"

SelectedChains(s) == {q \in Idx(s.chains) : IsSelected(s, s.chains[q].name)}

\* C35: after attach_input_to_selected_chains(obj), obj being the front
\* object of slot c, the chains connected to c are the chains whose name
\* is selected; every other chain keeps its input, except that a chain
\* that was connected to c and is not selected has none; no output
\* connection changes.  attach_output_to_selected_chains likewise.
C35_AttachToSelected ==
  /\ [][last'.op = "attach_input_to_selected_chains" =>
          /\ {q \in Idx(cs'.chains) : cs'.chains[q].input = last'.arg}
               = SelectedChains(cs)
          /\ \A q \in Idx(cs.chains) \ SelectedChains(cs) :
               cs'.chains[q].input =
                 IF cs.chains[q].input = last'.arg THEN -1 ELSE cs.chains[q].input
          /\ Connections(cs', "out") = Connections(cs, "out")
          /\ ChainNamesOf(cs') = ChainNamesOf(cs)]_vars
  /\ [][last'.op = "attach_output_to_selected_chains" =>
          /\ {q \in Idx(cs'.chains) : cs'.chains[q].output = last'.arg}
               = SelectedChains(cs)
          /\ \A q \in Idx(cs.chains) \ SelectedChains(cs) :
               cs'.chains[q].output =
                 IF cs.chains[q].output = last'.arg THEN -1 ELSE cs.chains[q].output
          /\ Connections(cs', "in") = Connections(cs, "in")
          /\ ChainNamesOf(cs') = ChainNamesOf(cs)]_vars

\* an attach that connected one of two chains to the slot and
\* disconnected the other from it
C35_Witness ==
  /\ last.op = "attach_input_to_selected_chains"
  /\ Len(cs.chains) = 2
  /\ \E q \in Idx(cs.chains) : cs.chains[q].input = last.arg
  /\ \E q \in Idx(cs.chains) : cs.chains[q].input = -1
  /\ Len(cs.inputs) = 2

(***************************************************************************)
(* Controllers.  A chain has a selected target (0: none) and a list of     *)
(* controllers, of which the model keeps the length.  CHAIN's methods are  *)
(* declared in eca-chain.h; their bodies are taken from the chain's        *)
(* documented operations: a target is selected among the chain's           *)
(* operators, and add_controller() appends to the controller list.         *)
(***************************************************************************)
MaxControllers == 2
MaxTargets == 2

\* CHAIN::add_controller(gcontroller)
CHAIN_add_controller(c) == [c EXCEPT !.gcontrollers = @ + 1]

\* CHAIN: the selected chain operator becomes the target
CHAIN_select_target(c) == [c EXCEPT !.selected_target = c.cops]

\* the pairs <<a, q>> of a selected id and a chain of that name
SelectedPairs(s) ==
  {h \in Idx(s.selected_chainids) \X Idx(s.chains) :
     s.selected_chainids[h[1]] = s.chains[h[2]].name}

\* the pair the two nested loops reach first
FirstSelectedPair(s) ==
  CHOOSE h \in SelectedPairs(s) :
    \A g \in SelectedPairs(s) : h[1] < g[1] \/ (h[1] = g[1] /\ h[2] <= g[2])

\* an add_controller() that goes on to the other selected chains
add_controller_to_all_selected(s) ==
  [s EXCEPT !.chains =
     [q \in Idx(s.chains) |->
        IF IsSelected(s, s.chains[q].name) /\ s.chains[q].selected_target # 0
        THEN CHAIN_add_controller(s.chains[q])
        ELSE s.chains[q]]]

add_controller(s) ==
  IF SelectedPairs(s) = {} THEN s
  ELSE IF s.chains[FirstSelectedPair(s)[2]].selected_target = 0 THEN s
  ELSE [s EXCEPT !.chains[FirstSelectedPair(s)[2]] = CHAIN_add_controller(@)]

AddOperatorToSelected ==
  /\ number_of_chain_operators(cs) < MaxTargets
  /\ SelectedPairs(cs) # {}
  /\ cs' = add_chain_operator(cs, 1)
  /\ last' = Called("other")
  /\ UNCHANGED psvars

SelectTarget ==
  /\ \E q \in Idx(cs.chains) :
       /\ cs.chains[q].cops > 0
       /\ cs' = [cs EXCEPT !.chains[q] = CHAIN_select_target(@)]
  /\ last' = Called("other")
  /\ UNCHANGED psvars

AddController ==
  /\ \A q \in Idx(cs.chains) : cs.chains[q].gcontrollers < MaxControllers
  /\ cs' = add_controller(cs)
  /\ last' = Called("add_controller")
  /\ UNCHANGED psvars

NextCtrl ==
  \/ AddDefaultChain
  \/ AddSecondChain
  \/ RenameToThird
  \/ SelectAllChains
  \/ AddOperatorToSelected
  \/ SelectTarget
  \/ AddController

SpecCtrl == InitLife /\ [][NextCtrl]_vars

Controllers(s) == [q \in Idx(s.chains) |-> s.chains[q].gcontrollers]

\* C36: when no selected id names a chain, or the first selected chain
\* has no selected target, add_controller() leaves every chain's
\* controllers as they were; otherwise that chain has one controller
\* more and every other chain the controllers it had.
C36_AddController ==
  [][last'.op = "add_controller" =>
       IF SelectedPairs(cs) = {} THEN Controllers(cs') = Controllers(cs)
       ELSE IF cs.chains[FirstSelectedPair(cs)[2]].selected_target = 0
       THEN Controllers(cs') = Controllers(cs)
       ELSE Controllers(cs') =
              [Controllers(cs) EXCEPT ![FirstSelectedPair(cs)[2]] = @ + 1]]_vars

\* a controller went to the first of two selected chains that both have
\* a target
C36_Witness ==
  /\ last.op = "add_controller"
  /\ Len(cs.chains) = 2
  /\ \A q \in Idx(cs.chains) :
       IsSelected(cs, cs.chains[q].name) /\ cs.chains[q].selected_target # 0
  /\ \E q \in Idx(cs.chains) : cs.chains[q].gcontrollers > 0
  /\ \E q \in Idx(cs.chains) : cs.chains[q].gcontrollers = 0

(***************************************************************************)
(* SpecRegistry: the proxy server's client registry with the objects'      *)
(* identities.  clients_rep holds object pointers ("0": unregistered),     *)
(* buffers_rep the rings (numbered as they are created) and                *)
(* client_map_rep maps an object to its index.  Indices are 1-based here,  *)
(* so the index 0 that std::map::operator[] inserts for a missing key is   *)
(* index 1.  `eng` holds the set of objects registered and not             *)
(* unregistered since; `last` the call just made.                          *)
(***************************************************************************)
AudioObjects == {"x", "y", "z"}
MaxRegistered == 3

RegistryNew == [clients_rep |-> <<>>, buffers_rep |-> <<>>,
                client_map_rep |-> <<>>, crashed |-> FALSE]

\* the map with key a bound to index i
MapPut(map, a, i) == [b \in DOMAIN map \cup {a} |-> IF b = a THEN i ELSE map[b]]

registry_register_client(s, aobject) ==
  [s EXCEPT !.clients_rep = Append(@, aobject),
            !.buffers_rep = Append(@, Len(s.buffers_rep) + 1),
            !.client_map_rep = MapPut(@, aobject, Len(s.clients_rep) + 1)]

\* client_map_rep[aobject]: the index, and the map after the lookup
registry_map_index(s, aobject) ==
  IF aobject \in DOMAIN s.client_map_rep
  THEN [index |-> s.client_map_rep[aobject], map |-> s.client_map_rep]
  ELSE [index |-> 1, map |-> MapPut(s.client_map_rep, aobject, 1)]

\* unregister_client(aobject): the outcomes.  With no client at the index
\* the store is outside the vector: the process may go on or crash.
registry_unregister_client(s, aobject) ==
  LET i == registry_map_index(s, aobject)
      s1 == [s EXCEPT !.client_map_rep = i.map]
  IN IF i.index <= Len(s.clients_rep)
     THEN {[s1 EXCEPT !.clients_rep[i.index] = "0"]}
     ELSE {s1, [s1 EXCEPT !.crashed = TRUE]}

\* get_client_buffer(aobject): the values it can return, a ring or 0 for
\* null.  With no client at the object's index the read is outside the
\* vector and the call returns null or (-1) a pointer that is no ring.
registry_get_client_buffer(s, aobject) ==
  IF aobject \notin DOMAIN s.client_map_rep THEN {0}
  ELSE IF s.client_map_rep[aobject] > Len(s.clients_rep) THEN {0, -1}
  ELSE IF s.clients_rep[s.client_map_rep[aobject]] = "0" THEN {0}
  ELSE {s.buffers_rep[s.client_map_rep[aobject]]}

RegistryRegister ==
  /\ ~ps.crashed
  /\ Len(ps.clients_rep) < MaxRegistered
  /\ \E a \in AudioObjects :
       /\ ps' = registry_register_client(ps, a)
       /\ eng' = [eng EXCEPT !.live = @ \cup {a}]
       /\ last' = CalledWith("register_client", a)
  /\ UNCHANGED <<cs, io>>

RegistryUnregister ==
  /\ ~ps.crashed
  /\ \E a \in AudioObjects :
       /\ ps' \in registry_unregister_client(ps, a)
       /\ eng' = [eng EXCEPT !.live = @ \ {a}]
       /\ last' = CalledWith("unregister_client", a)
  /\ UNCHANGED <<cs, io>>

InitRegistry ==
  /\ cs = set_defaults(TRUE)
  /\ last = Called("other")
  /\ ps = RegistryNew
  /\ io = NoThread
  /\ eng = [live |-> {}]

NextRegistry == RegistryRegister \/ RegistryUnregister

SpecRegistry == InitRegistry /\ [][NextRegistry]_vars

\* C37: unregister_client(a) makes get_client_buffer(a) null, leaves every
\* other object's ring as it was and frees no ring; get_client_buffer(x)
\* is null for every object that is not registered; the client list and
\* the ring list have the same length; the process goes on.
C37_UnregisterOnlyThat ==
  /\ [][last'.op = "unregister_client" =>
          /\ registry_get_client_buffer(ps', last'.arg) = {0}
          /\ \A b \in AudioObjects \ {last'.arg} :
               registry_get_client_buffer(ps', b) = registry_get_client_buffer(ps, b)
          /\ ps'.buffers_rep = ps.buffers_rep]_vars
  /\ [](\A x \in AudioObjects \ eng.live : registry_get_client_buffer(ps, x) = {0})
  /\ [](Len(ps.clients_rep) = Len(ps.buffers_rep))
  /\ [](~ps.crashed)

(***************************************************************************)
(* End of stream and the last buffer                                       *)
(***************************************************************************)
\* C38: whenever the finished flag of a read ring is set, every buffer
\* the worker has read from the ring's client is published in the ring:
\* the write index has been advanced once for each of them.
C38_FinishedAfterLastData ==
  \A p \in Idx(ps.buffers_rep) :
    (ps.buffers_rep[p].io_mode_rep = io_read /\ ps.buffers_rep[p].finished_rep = 1)
      => Len(eng.put[p]) = ps.clients_rep[p].pos

(***************************************************************************)
(* What select_active_buffering_mode() writes                              *)
(***************************************************************************)
\* the chainsetup without the three things the selection decides
OutsideSelection(s) ==
  [f \in DOMAIN s \ {"active_buffering_mode_rep", "bmode_active_rep",
                     "multitrack_mode_rep"} |-> s[f]]

\* C39: select_active_buffering_mode() changes the active mode, the
\* active parameter tuple and the multitrack flag only; the user's
\* override fields are after the call what they were before it.
C39_SelectionKeepsOverrides ==
  [][last'.op = "select" =>
       /\ cs'.bmode_override_rep = cs.bmode_override_rep
       /\ OutsideSelection(cs') = OutsideSelection(cs)]_vars

(***************************************************************************)
(* The configuration of an enabled chainsetup                              *)
(***************************************************************************)
EffectiveParams(s) == [f \in BufparamFields |-> Effective(s, f)]

OpenObjects(s) ==
  {s.inputs_direct_rep[n] : n \in {m \in Idx(s.inputs_direct_rep) : s.inputs_direct_rep[m].open}}
    \cup
  {s.outputs_direct_rep[n] : n \in {m \in Idx(s.outputs_direct_rep) : s.outputs_direct_rep[m].open}}

\* C40: while the chainsetup stays enabled no call changes the effective
\* buffering parameters, and buffersize() is the buffersize of every open
\* audio object.
C40_SnapshotAtEnable ==
  /\ [][(cs.is_enabled_rep = TRUE /\ cs'.is_enabled_rep = TRUE)
          => EffectiveParams(cs') = EffectiveParams(cs)]_vars
  /\ [](cs.is_enabled_rep = TRUE =>
          \A o \in OpenObjects(cs) : o.buffersize = buffersize(cs))

====
